---- MODULE Spec2Model ----
(***************************************************************************)
(* Model of the vaultkeeper cataloging pipeline:                           *)
(*   - the catalog store (tables drives and files) and the `catalog`       *)
(*     command of scripts/utils/asset-tracker.py (get_drive_info,          *)
(*     check_for_duplicate_drive, handle_duplicate_drive, catalog_files);  *)
(*   - the transcription pool (process_transcriptions / process_file);     *)
(*   - the R3D thumbnail pass of redline_single_frame.py                   *)
(*     (process_r3d_thumbnails / update_thumbnails_for_rdc_group).         *)
(* SQL NULL and Python None are modelled by 0 for ids and thumbnail paths, *)
(* by "" for labels and by "NULL" for transcription_status.                *)
(***************************************************************************)
EXTENDS Integers, Sequences, FiniteSets, TLC

VARIABLES
    drives,   \* table drives, in rowid order: sequence of drive rows
    files,    \* table files: file id (primary key) -> row
    uuid,     \* number of uuid4() values drawn so far; the next one is uuid + 1
    ncmds,    \* number of catalog commands run so far
    ret,      \* what the last catalog command was given and what it returned
    runs,     \* the process_transcriptions runs
    th        \* the process_r3d_thumbnails pass

vars == <<drives, files, uuid, ncmds, ret, runs, th>>

----------------------------------------------------------------------------
(* Bounds of the model. *)

MaxCommands == 3      \* catalog commands per behaviour
NumFiles == 3         \* file rows in the store of the transcription runs
MaxWorkers == 2       \* largest max_workers a run is started with
NumRuns == 2          \* process_transcriptions runs against the same store
MaxGroup == 201       \* largest clip group of the thumbnail pass
MaxPriors == 2        \* prior drive rows of one volume name
MaxR3D == 3           \* R3D files handed to group_r3d_files_by_rdc
MaxChunks == 5        \* members of a group handed to select_representative_r3d
NumDrives == 2        \* drives of the location registry
NumLocations == 2     \* shelf locations of the registry

----------------------------------------------------------------------------
(* The mounted volumes the catalog command can be pointed at. *)

Mounts == {"/mnt/FOOTAGE_01", "/mnt/AUDIO_02"}

\* os.path.basename(mount_point): the volume name on Linux.
basename(m) ==
    CASE m = "/mnt/FOOTAGE_01" -> "FOOTAGE_01"
      [] m = "/mnt/AUDIO_02" -> "AUDIO_02"
      [] OTHER -> ""

\* os.walk(mount_point): the relative paths in directory-walk order.
os_walk(m) ==
    CASE m = "/mnt/FOOTAGE_01" -> <<".DS_Store", "clip.mov">>
      [] m = "/mnt/AUDIO_02" -> <<"notes.txt", "take.wav">>
      [] OTHER -> <<>>

\* any(part.startswith('.') ...): system files are skipped.
IsHidden(rel_path) == rel_path = ".DS_Store"

\* mimetypes.guess_type(file_path)[0] or "application/octet-stream"
guess_type(rel_path) ==
    CASE rel_path = "clip.mov" -> "video/quicktime"
      [] rel_path = "take.wav" -> "audio/x-wav"
      [] rel_path = "notes.txt" -> "text/plain"
      [] OTHER -> "application/octet-stream"

IsVideo(mime) == mime = "video/quicktime"
IsAudio(mime) == mime = "audio/x-wav"

\* os.stat(file_path).st_size
st_size(rel_path) ==
    CASE rel_path = "clip.mov" -> 3
      [] rel_path = "take.wav" -> 2
      [] OTHER -> 1

----------------------------------------------------------------------------
(* The store. *)

\* Python None for a drive_info dictionary.
None == [id |-> 0, volume_name |-> "", label |-> "", mount_point |-> ""]

RangeOf(s) == {s[i] : i \in 1..Len(s)}

DriveIds == {drives[i].id : i \in 1..Len(drives)}

\* Mutant: the drives table with volume_name as a second unique key.
InsertOrReplaceDrive_ByVolume(tbl, row) ==
    SelectSeq(tbl, LAMBDA d : d.id # row.id /\ d.volume_name # row.volume_name)
        \o <<row>>

\* INSERT OR REPLACE INTO drives: id is the primary key, so a row with the
\* same id is deleted and the new row is appended (it gets a new rowid).
InsertOrReplaceDrive(tbl, row) ==
    SelectSeq(tbl, LAMBDA d : d.id # row.id) \o <<row>>

\* INSERT OR REPLACE INTO files: the only key of the table is id.
InsertOrReplaceFile(tbl, id, row) ==
    [f \in (DOMAIN tbl) \cup {id} |-> IF f = id THEN row ELSE tbl[f]]

\* DELETE FROM files WHERE drive_id = ?
delete_files_for_drive(tbl, drive_id) ==
    [f \in {g \in DOMAIN tbl : tbl[g].drive_id # drive_id} |-> tbl[f]]

\* Mutant: the query without its WHERE clause.
check_for_duplicate_drive_AnyVolume(volume_name) == drives

\* SELECT * FROM drives WHERE volume_name = ?  (rowid order; <<>> is None)
check_for_duplicate_drive(volume_name) ==
    SelectSeq(drives, LAMBDA d : d.volume_name = volume_name)

----------------------------------------------------------------------------
(* handle_duplicate_drive.  The answers typed at the prompts are inputs.   *)

Answers == {"1", "2", "3", "x"}        \* input("Your choice (1-3): ")
IndexAnswers == {"0", "1", "2", "3", "x"}
ClearAnswers == {"y", "n"}
DuplicateChoices == 0..3               \* --duplicate-choice; 0 is None

\* int(replace_idx): raises ValueError unless the text is a number.
IsNumber(s) == s \in {"0", "1", "2", "3"}
int(s) ==
    CASE s = "0" -> 0
      [] s = "1" -> 1
      [] s = "2" -> 2
      [] s = "3" -> 3
      [] OTHER -> 0

\* str(default_choice)
str(n) ==
    CASE n = 1 -> "1"
      [] n = 2 -> "2"
      [] n = 3 -> "3"
      [] OTHER -> "0"

\* Mutant: the predetermined choice is ignored and the prompt is shown.
EffectiveChoice_AlwaysAsks(batch_mode, default_choice, in_choice) == in_choice

\* The choice the function acts on (lines 208-219).
EffectiveChoice(batch_mode, default_choice, in_choice) ==
    IF batch_mode /\ default_choice # 0 THEN str(default_choice) ELSE in_choice

\* Mutant: the entry to replace is asked for in batch mode as well.
ReplacePosition_AlwaysAsks(duplicate_drives, batch_mode, default_choice, in_idx) ==
    IF Len(duplicate_drives) = 1 THEN 1
    ELSE IF ~IsNumber(in_idx) THEN 0
    ELSE IF 0 <= int(in_idx) - 1 /\ int(in_idx) - 1 < Len(duplicate_drives)
         THEN int(in_idx)
         ELSE 0

\* The entry to replace, as a position in duplicate_drives; 0 when the
\* answer is not a valid position (lines 222-240).
ReplacePosition(duplicate_drives, batch_mode, default_choice, in_idx) ==
    IF Len(duplicate_drives) = 1 THEN 1
    ELSE IF batch_mode /\ default_choice # 0 THEN 1
    ELSE IF ~IsNumber(in_idx) THEN 0
    ELSE IF 0 <= int(in_idx) - 1 /\ int(in_idx) - 1 < Len(duplicate_drives)
         THEN int(in_idx)
         ELSE 0

\* clear_files (lines 251-257)
ClearFiles(batch_mode, default_choice, in_clear) ==
    IF batch_mode /\ default_choice # 0 THEN "n" ELSE in_clear

\* The input() calls of one invocation (lines 219, 230 and 257).
Prompts(duplicate_drives, batch_mode, default_choice, in_choice, in_idx) ==
    LET preset == batch_mode /\ default_choice # 0
        choice == EffectiveChoice(batch_mode, default_choice, in_choice)
        pos == ReplacePosition(duplicate_drives, batch_mode, default_choice, in_idx)
    IN  (IF preset THEN {} ELSE {"choice"})
        \cup (IF choice = "1" /\ Len(duplicate_drives) # 1 /\ ~preset
              THEN {"index"} ELSE {})
        \cup (IF choice = "1" /\ pos # 0 /\ ~preset THEN {"clear"} ELSE {})

\* Mutant: an answer other than 1 or 2 falls through to "create a new entry".
handle_duplicate_drive_SkipCreates(duplicate_drives, new_drive_info, batch_mode, default_choice, in_choice, in_idx, in_clear) ==
    LET choice == EffectiveChoice(batch_mode, default_choice, in_choice)
        pos == ReplacePosition(duplicate_drives, batch_mode, default_choice, in_idx)
    IN  IF choice = "1" /\ pos # 0 THEN
            [info |-> [new_drive_info EXCEPT !.id = duplicate_drives[pos].id],
             cleared |-> IF ClearFiles(batch_mode, default_choice, in_clear) = "y"
                         THEN duplicate_drives[pos].id ELSE 0]
        ELSE [info |-> new_drive_info, cleared |-> 0]

\* Mutant: the replace branch forgets to take over the id of the old entry.
handle_duplicate_drive_KeepsNewId(duplicate_drives, new_drive_info, batch_mode, default_choice, in_choice, in_idx, in_clear) ==
    LET choice == EffectiveChoice(batch_mode, default_choice, in_choice)
        pos == ReplacePosition(duplicate_drives, batch_mode, default_choice, in_idx)
    IN  IF choice = "1" THEN
            [info |-> new_drive_info,
             cleared |-> IF pos # 0
                            /\ ClearFiles(batch_mode, default_choice, in_clear) = "y"
                         THEN duplicate_drives[pos].id ELSE 0]
        ELSE IF choice = "2" THEN [info |-> new_drive_info, cleared |-> 0]
        ELSE [info |-> None, cleared |-> 0]

\* Result: the drive_info returned (None to skip) and the id of the drive
\* whose files delete_files_for_drive removed (0 when it was not called).
handle_duplicate_drive(duplicate_drives, new_drive_info, batch_mode, default_choice, in_choice, in_idx, in_clear) ==
    LET choice == EffectiveChoice(batch_mode, default_choice, in_choice)
        pos == ReplacePosition(duplicate_drives, batch_mode, default_choice, in_idx)
    IN  IF choice = "1" THEN
            IF pos = 0 THEN [info |-> new_drive_info, cleared |-> 0]
            ELSE
                LET drive_to_replace == duplicate_drives[pos]
                    keep_label == /\ drive_to_replace.label # ""
                                  /\ drive_to_replace.label # drive_to_replace.volume_name
                                  /\ new_drive_info.label = ""
                    info == [new_drive_info EXCEPT
                                !.id = drive_to_replace.id,
                                !.label = IF keep_label THEN drive_to_replace.label ELSE @]
                IN  [info |-> info,
                     cleared |-> IF ClearFiles(batch_mode, default_choice, in_clear) = "y"
                                 THEN drive_to_replace.id ELSE 0]
        ELSE IF choice = "2" THEN [info |-> new_drive_info, cleared |-> 0]
        ELSE [info |-> None, cleared |-> 0]

\* get_drive_info: builds the candidate with a fresh id and reconciles it.
get_drive_info(mount_point, exists, batch_mode, duplicate_choice, in_choice, in_idx, in_clear) ==
    LET drive_info == [id |-> uuid + 1, volume_name |-> basename(mount_point),
                       label |-> "", mount_point |-> mount_point]
        duplicates == check_for_duplicate_drive(drive_info.volume_name)
    IN  IF ~exists THEN [info |-> None, cleared |-> 0, asked |-> FALSE]
        ELSE IF duplicates # <<>> THEN
            [asked |-> TRUE] @@
            handle_duplicate_drive(duplicates, drive_info, batch_mode,
                                   duplicate_choice, in_choice, in_idx, in_clear)
        ELSE [info |-> drive_info, cleared |-> 0, asked |-> FALSE]

----------------------------------------------------------------------------
(* catalog_files.  errs are the files whose processing raises (stat,       *)
(* checksum, media info, thumbnail or insert); thumbs are the video files  *)
(* whose thumbnail generation succeeds.                                    *)

\* "pending" if the MIME type is video/* or audio/*, else NULL (line 1026)
InitialStatus(mime) == IF IsVideo(mime) \/ IsAudio(mime) THEN "pending" ELSE "NULL"

\* Mutant: the exception of one file ends the walk.
RECURSIVE WalkFiles_AbortsOnError(_, _, _, _, _, _)
WalkFiles_AbortsOnError(walk, i, drive_id, errs, thumbs, st) ==
    IF i > Len(walk) THEN st
    ELSE LET rel_path == walk[i]
             mime == guess_type(rel_path)
             thumb == IsVideo(mime) /\ rel_path \in thumbs
             id == IF thumb THEN st.uuid + 2 ELSE st.uuid + 1
             row == [drive_id |-> drive_id, path |-> rel_path,
                     size_bytes |-> st_size(rel_path),
                     thumbnail_path |-> IF thumb THEN st.uuid + 1 ELSE 0,
                     transcription_status |-> InitialStatus(mime)]
         IN  IF IsHidden(rel_path) THEN
                 WalkFiles_AbortsOnError(walk, i + 1, drive_id, errs, thumbs,
                                         [st EXCEPT !.skipped_count = @ + 1])
             ELSE IF rel_path \in errs THEN [st EXCEPT !.error_count = @ + 1]
             ELSE
                 WalkFiles_AbortsOnError(walk, i + 1, drive_id, errs, thumbs,
                                         [st EXCEPT !.files = InsertOrReplaceFile(@, id, row),
                                                    !.uuid = id,
                                                    !.total_files = @ + 1])

\* The walk of lines 893-1046 from position i on; st carries the files
\* table, the uuid counter and the counters of the run.
RECURSIVE WalkFiles(_, _, _, _, _, _)
WalkFiles(walk, i, drive_id, errs, thumbs, st) ==
    IF i > Len(walk) THEN st
    ELSE LET rel_path == walk[i]
             mime == guess_type(rel_path)
             thumb == IsVideo(mime) /\ rel_path \in thumbs
             thumbnail_path == IF thumb THEN st.uuid + 1 ELSE 0
             id == IF thumb THEN st.uuid + 2 ELSE st.uuid + 1
             row == [drive_id |-> drive_id, path |-> rel_path,
                     size_bytes |-> st_size(rel_path),
                     thumbnail_path |-> thumbnail_path,
                     transcription_status |-> InitialStatus(mime)]
         IN  IF IsHidden(rel_path) THEN
                 WalkFiles(walk, i + 1, drive_id, errs, thumbs,
                           [st EXCEPT !.skipped_count = @ + 1])
             ELSE IF rel_path \in errs THEN
                 WalkFiles(walk, i + 1, drive_id, errs, thumbs,
                           [st EXCEPT !.error_count = @ + 1])
             ELSE
                 WalkFiles(walk, i + 1, drive_id, errs, thumbs,
                           [st EXCEPT !.files = InsertOrReplaceFile(@, id, row),
                                      !.uuid = id,
                                      !.total_files = @ + 1])

\* catalog_files(drive_info): the stores and counters after the call.
catalog_files(drive_info, errs, thumbs) ==
    IF drive_info = None THEN
        [drives |-> drives, files |-> files, uuid |-> uuid, walked |-> FALSE,
         total_files |-> 0, error_count |-> 0, skipped_count |-> 0]
    ELSE
        LET row == [id |-> drive_info.id,
                    volume_name |-> drive_info.volume_name,
                    label |-> IF drive_info.label = "" THEN drive_info.volume_name
                              ELSE drive_info.label,
                    mount_point |-> drive_info.mount_point]
            st == WalkFiles(os_walk(drive_info.mount_point), 1, drive_info.id,
                            errs, thumbs,
                            [files |-> files, uuid |-> uuid, total_files |-> 0,
                             error_count |-> 0, skipped_count |-> 0])
        IN  [drives |-> InsertOrReplaceDrive(drives, row), files |-> st.files,
             uuid |-> st.uuid, walked |-> TRUE, total_files |-> st.total_files,
             error_count |-> st.error_count, skipped_count |-> st.skipped_count]

\* main, command "catalog", lines 1863-1867: the label option and the call.
main_catalog(drive_info, label_arg, errs, thumbs) ==
    IF drive_info # None THEN
        catalog_files(IF label_arg # "" THEN [drive_info EXCEPT !.label = label_arg]
                      ELSE drive_info, errs, thumbs)
    ELSE
        [drives |-> drives, files |-> files, uuid |-> uuid, walked |-> FALSE,
         total_files |-> 0, error_count |-> 0, skipped_count |-> 0]

Labels == {"", "Reel A"}               \* --label; "" is no option

WalkedPaths(m) == {p \in RangeOf(os_walk(m)) : ~IsHidden(p)}

IdleRuns == [r \in 1..NumRuns |->
                [pc |-> "idle", pending_files |-> <<>>, queue |-> <<>>,
                 max_workers |-> 0,
                 workers |-> [w \in 1..MaxWorkers |-> [pc |-> "idle", id |-> 0]],
                 results |-> <<>>, processed_count |-> 0]]

IdleThumbs == [pc |-> "idle", groups |-> <<>>, group |-> 0, path |-> 0,
               extracted |-> FALSE, batch |-> 0, failed |-> {},
               total_updated |-> 0, updated |-> 0, total_processed |-> 0,
               total_files_updated |-> 0, total_failed |-> 0]

NoCommand == [pc |-> "start", mount_point |-> "", candidate |-> None,
              info |-> None, asked |-> FALSE, choice |-> "", pos |-> 0,
              duplicates |-> <<>>, cleared |-> 0, walked |-> FALSE,
              total_files |-> 0]

\* The answers a run can give: a prompt that is not shown gets no answer
\* ("x" and "n" stand for it), so that each run is enumerated once.
ChoicePrompt(m, exists, batch_mode, duplicate_choice) ==
    IF exists /\ check_for_duplicate_drive(basename(m)) # <<>>
              /\ ~(batch_mode /\ duplicate_choice # 0)
    THEN Answers ELSE {"x"}

IndexPrompt(m, exists, batch_mode, duplicate_choice, in_choice) ==
    IF exists /\ Len(check_for_duplicate_drive(basename(m))) > 1
              /\ ~(batch_mode /\ duplicate_choice # 0) /\ in_choice = "1"
    THEN IndexAnswers ELSE {"x"}

ClearPrompt(m, exists, batch_mode, duplicate_choice, in_choice, in_idx) ==
    IF exists /\ check_for_duplicate_drive(basename(m)) # <<>>
              /\ ~(batch_mode /\ duplicate_choice # 0) /\ in_choice = "1"
              /\ ReplacePosition(check_for_duplicate_drive(basename(m)),
                                 batch_mode, duplicate_choice, in_idx) # 0
    THEN ClearAnswers ELSE {"n"}

\* First half of the catalog command: drive_info = get_drive_info(...).
GetDriveInfo(m, exists, batch_mode, duplicate_choice, in_choice, in_idx, in_clear) ==
    /\ ret.pc = "start"
    /\ ncmds < MaxCommands
    /\ LET r == get_drive_info(m, exists, batch_mode, duplicate_choice,
                               in_choice, in_idx, in_clear)
           duplicates == check_for_duplicate_drive(basename(m))
           choice == IF r.asked
                     THEN EffectiveChoice(batch_mode, duplicate_choice, in_choice)
                     ELSE ""
       IN  /\ files' = IF r.cleared # 0 THEN delete_files_for_drive(files, r.cleared)
                       ELSE files
           /\ uuid' = IF exists THEN uuid + 1 ELSE uuid
           /\ ret' = [pc |-> "resolved", mount_point |-> m,
                      candidate |-> IF exists
                                    THEN [id |-> uuid + 1, volume_name |-> basename(m),
                                          label |-> "", mount_point |-> m]
                                    ELSE None,
                      info |-> r.info, asked |-> r.asked, choice |-> choice,
                      pos |-> IF choice = "1"
                              THEN ReplacePosition(duplicates, batch_mode,
                                                   duplicate_choice, in_idx)
                              ELSE 0,
                      duplicates |-> IF exists THEN duplicates ELSE <<>>,
                      cleared |-> r.cleared, walked |-> FALSE, total_files |-> 0]
    /\ UNCHANGED <<drives, ncmds, runs, th>>

\* Second half: if drive_info: ... total_files = catalog_files(drive_info).
CatalogFiles(label_arg, errs, thumbs) ==
    /\ ret.pc = "resolved"
    /\ errs \subseteq WalkedPaths(ret.mount_point)
    /\ thumbs \subseteq {p \in WalkedPaths(ret.mount_point) \ errs : IsVideo(guess_type(p))}
    /\ ret.info = None => (label_arg = "" /\ errs = {} /\ thumbs = {})
    /\ LET c == main_catalog(ret.info, label_arg, errs, thumbs)
       IN  /\ drives' = c.drives
           /\ files' = c.files
           /\ uuid' = c.uuid
           /\ ret' = [ret EXCEPT !.pc = "start", !.walked = c.walked,
                                 !.total_files = c.total_files]
    /\ ncmds' = ncmds + 1
    /\ UNCHANGED <<runs, th>>

NextCatalog ==
    \/ /\ ret.pc = "start" /\ ncmds < MaxCommands
       /\ \E m \in Mounts, exists \in BOOLEAN, batch_mode \in BOOLEAN,
          duplicate_choice \in DuplicateChoices :
          \E in_choice \in ChoicePrompt(m, exists, batch_mode, duplicate_choice) :
          \E in_idx \in IndexPrompt(m, exists, batch_mode, duplicate_choice, in_choice) :
          \E in_clear \in ClearPrompt(m, exists, batch_mode, duplicate_choice,
                                      in_choice, in_idx) :
            GetDriveInfo(m, exists, batch_mode, duplicate_choice,
                         in_choice, in_idx, in_clear)
    \/ /\ ret.pc = "resolved"
       /\ \E label_arg \in Labels :
          \E errs \in SUBSET WalkedPaths(ret.mount_point) :
          \E thumbs \in SUBSET (WalkedPaths(ret.mount_point) \ errs) :
            CatalogFiles(label_arg, errs, thumbs)

\* The store after init_db: both tables empty.
Init ==
    /\ drives = <<>>
    /\ files = <<>>
    /\ uuid = 0
    /\ ncmds = 0
    /\ ret = NoCommand
    /\ runs = IdleRuns
    /\ th = IdleThumbs

Spec == Init /\ [][NextCatalog]_vars

----------------------------------------------------------------------------
(* process_transcriptions and its worker function process_file.  A run     *)
(* snapshots the pending rows, submits one process_file call per row to a  *)
(* ThreadPoolExecutor of max_workers threads and waits for all of them.    *)
(* Every SQL statement with its commit is one atomic step.                 *)

Runs == 1..NumRuns

\* ORDER BY size_bytes ASC (rows of equal size in rowid order)
RECURSIVE SortBySize(_)
SortBySize(S) ==
    IF S = {} THEN <<>>
    ELSE LET m == CHOOSE f \in S : \A g \in S :
                      \/ files[f].size_bytes < files[g].size_bytes
                      \/ files[f].size_bytes = files[g].size_bytes /\ f <= g
         IN  <<m>> \o SortBySize(S \ {m})

\* SELECT id, ... FROM files WHERE transcription_status = 'pending'
\* [AND drive_id = ?] ORDER BY size_bytes ASC.  drive_id 0 is None.
FindPending(drive_id) ==
    LET ids == SortBySize({f \in DOMAIN files :
                             /\ files[f].transcription_status = "pending"
                             /\ (drive_id = 0 \/ files[f].drive_id = drive_id)})
    IN  [i \in 1..Len(ids) |-> [id |-> ids[i], drive_id |-> files[ids[i]].drive_id]]

\* UPDATE files SET transcription_status = ? WHERE id = ?
SetStatus(tbl, id, status) ==
    IF id \in DOMAIN tbl THEN [tbl EXCEPT ![id].transcription_status = status]
    ELSE tbl

\* Mutant: the thread reads the head of the queue without removing it.
Dequeue_Peek(queue) == queue

\* The work queue of the executor after a thread has taken its head.
Dequeue(queue) == Tail(queue)

\* Mutant: no handler stores 'error' when transcribe_audio raises.
FinishStatus_NoHandler(outcome) ==
    CASE outcome = "ok" -> "completed"
      [] outcome = "none" -> "error"
      [] OTHER -> "processing"

\* The status process_file stores after transcribe_audio: "ok" is a result,
\* "none" a failed transcription, "raise" an exception (lines 1473-1507).
Outcomes == {"ok", "none", "raise"}
FinishStatus(outcome) == IF outcome = "ok" THEN "completed" ELSE "error"

Idle == [pc |-> "idle", id |-> 0]

\* process_transcriptions up to the submission of the futures.
StartRun(r, drive_id, max_workers) ==
    /\ runs[r].pc = "idle"
    /\ LET pending_files == FindPending(drive_id)
       IN  runs' = [runs EXCEPT ![r] =
                IF pending_files = <<>>
                THEN [@ EXCEPT !.pc = "done"]
                ELSE [@ EXCEPT !.pc = "running",
                               !.pending_files = pending_files,
                               !.queue = pending_files,
                               !.max_workers = max_workers]]
    /\ UNCHANGED <<drives, files, uuid, ncmds, ret, th>>

Report(r, w, id, ok, claimed) ==
    [runs EXCEPT ![r].workers[w] = Idle,
                 ![r].results = Append(@, [id |-> id, ok |-> ok, claimed |-> claimed])]

\* Mutant: every thread takes files, whatever max_workers is.
TakeFile_NoPoolBound(r, w, exists) ==
    /\ runs[r].pc = "running"
    /\ runs[r].workers[w].pc = "idle"
    /\ runs[r].queue # <<>>
    /\ LET file_data == Head(runs[r].queue)
           id == file_data.id
           taken == [runs EXCEPT ![r].queue = Dequeue(@)]
       IN  IF file_data.drive_id \notin DriveIds THEN
               /\ runs' = [taken EXCEPT
                      ![r].results = Append(@, [id |-> id, ok |-> FALSE, claimed |-> FALSE])]
               /\ files' = files
           ELSE IF ~exists THEN
               /\ runs' = [taken EXCEPT
                      ![r].results = Append(@, [id |-> id, ok |-> FALSE, claimed |-> FALSE])]
               /\ files' = SetStatus(files, id, "error")
           ELSE
               /\ runs' = [taken EXCEPT ![r].workers[w] = [pc |-> "claim", id |-> id]]
               /\ files' = files
    /\ UNCHANGED <<drives, uuid, ncmds, ret, th>>

\* A free thread takes the next file and runs process_file up to the claim:
\* the drive lookup and the os.path.exists test (lines 1431-1457).
TakeFile(r, w, exists) ==
    /\ runs[r].pc = "running"
    /\ w <= runs[r].max_workers
    /\ runs[r].workers[w].pc = "idle"
    /\ runs[r].queue # <<>>
    /\ LET file_data == Head(runs[r].queue)
           id == file_data.id
           taken == [runs EXCEPT ![r].queue = Dequeue(@)]
       IN  IF file_data.drive_id \notin DriveIds THEN
               /\ runs' = [taken EXCEPT
                      ![r].results = Append(@, [id |-> id, ok |-> FALSE, claimed |-> FALSE])]
               /\ files' = files
           ELSE IF ~exists THEN
               /\ runs' = [taken EXCEPT
                      ![r].results = Append(@, [id |-> id, ok |-> FALSE, claimed |-> FALSE])]
               /\ files' = SetStatus(files, id, "error")
           ELSE
               /\ runs' = [taken EXCEPT ![r].workers[w] = [pc |-> "claim", id |-> id]]
               /\ files' = files
    /\ UNCHANGED <<drives, uuid, ncmds, ret, th>>

\* "Mark as processing" (lines 1461-1467); raises: the statement fails and
\* the handler of line 1497 stores 'error'.
Claim(r, w, raises) ==
    /\ runs[r].workers[w].pc = "claim"
    /\ LET id == runs[r].workers[w].id
       IN  IF raises THEN
               /\ files' = SetStatus(files, id, "error")
               /\ runs' = Report(r, w, id, FALSE, FALSE)
           ELSE
               /\ files' = SetStatus(files, id, "processing")
               /\ runs' = [runs EXCEPT ![r].workers[w].pc = "transcribing"]
    /\ UNCHANGED <<drives, uuid, ncmds, ret, th>>

\* transcribe_audio returns or raises and the status is stored.
Finish(r, w, outcome) ==
    /\ runs[r].workers[w].pc = "transcribing"
    /\ LET id == runs[r].workers[w].id
       IN  /\ files' = SetStatus(files, id, FinishStatus(outcome))
           /\ runs' = Report(r, w, id, outcome = "ok", TRUE)
    /\ UNCHANGED <<drives, uuid, ncmds, ret, th>>

\* All futures have a result: the counts are summed and the run returns.
FinishRun(r) ==
    /\ runs[r].pc = "running"
    /\ Len(runs[r].results) = Len(runs[r].pending_files)
    /\ runs' = [runs EXCEPT ![r].pc = "done",
                  ![r].processed_count =
                      Cardinality({i \in 1..Len(runs[r].results) : runs[r].results[i].ok})]
    /\ UNCHANGED <<drives, files, uuid, ncmds, ret, th>>

NextRun(r) ==
    \/ \E drive_id \in {0} \cup DriveIds, max_workers \in 1..MaxWorkers :
          StartRun(r, drive_id, max_workers)
    \/ \E w \in 1..MaxWorkers, exists \in BOOLEAN : TakeFile(r, w, exists)
    \/ \E w \in 1..MaxWorkers, raises \in BOOLEAN : Claim(r, w, raises)
    \/ \E w \in 1..MaxWorkers, outcome \in Outcomes : Finish(r, w, outcome)
    \/ FinishRun(r)

\* A store as catalog runs and earlier transcription runs leave it: one
\* drive with NumFiles files, the smaller files having the larger ids.
Statuses == {"pending", "NULL", "completed"}

InitTranscribe ==
    /\ drives = <<[id |-> 1, volume_name |-> "FOOTAGE_01", label |-> "FOOTAGE_01",
                   mount_point |-> "/mnt/FOOTAGE_01"]>>
    /\ \E st \in [1..NumFiles -> Statuses] :
          files = [f \in 2..(NumFiles + 1) |->
                      [drive_id |-> 1, path |-> "clip" \o ToString(f) \o ".mov",
                       size_bytes |-> NumFiles + 2 - f, thumbnail_path |-> 0,
                       transcription_status |-> st[f - 1]]]
    /\ uuid = NumFiles + 1
    /\ ncmds = 0
    /\ ret = NoCommand
    /\ runs = IdleRuns
    /\ th = IdleThumbs

\* Several runs against the same store.
SpecTranscribe == InitTranscribe /\ [][\E r \in Runs : NextRun(r)]_vars

\* One run; every thread of the pool and the waiting main thread keep
\* running (the worker is not killed, transcribe_audio returns or raises).
NextOneRun == NextRun(1)

SpecOneRun ==
    /\ InitTranscribe
    /\ [][NextOneRun]_vars
    /\ WF_vars(\E w \in 1..MaxWorkers, exists \in BOOLEAN : TakeFile(1, w, exists))
    /\ WF_vars(\E w \in 1..MaxWorkers, raises \in BOOLEAN : Claim(1, w, raises))
    /\ WF_vars(\E w \in 1..MaxWorkers, outcome \in Outcomes : Finish(1, w, outcome))
    /\ WF_vars(FinishRun(1))

----------------------------------------------------------------------------
(* process_r3d_thumbnails of redline_single_frame.py: for each clip group  *)
(* one frame is extracted from a representative file and the thumbnail is  *)
(* stored for all files of the group by update_thumbnails_for_rdc_group,   *)
(* which commits one batch of file ids at a time.                          *)

batch_size == 100

\* batches = [file_ids[i:i+batch_size] for i in range(0, len(file_ids), batch_size)]
NumBatches(file_ids) == (Len(file_ids) + batch_size - 1) \div batch_size

Batch(file_ids, k) ==
    SubSeq(file_ids, (k - 1) * batch_size + 1,
           IF k * batch_size < Len(file_ids) THEN k * batch_size ELSE Len(file_ids))

\* Mutant: the statement updates the first id of the batch only.
ApplyBatch_FirstOnly(tbl, batch, thumbnail_path) ==
    [f \in DOMAIN tbl |->
        IF f = batch[1] THEN [tbl[f] EXCEPT !.thumbnail_path = thumbnail_path]
        ELSE tbl[f]]

\* UPDATE files SET thumbnail_path = ? WHERE id IN (batch)
ApplyBatch(tbl, batch, thumbnail_path) ==
    [f \in DOMAIN tbl |->
        IF f \in RangeOf(batch) THEN [tbl[f] EXCEPT !.thumbnail_path = thumbnail_path]
        ELSE tbl[f]]

\* cursor.rowcount of that statement
RowCount(tbl, batch) == Cardinality(RangeOf(batch) \cap DOMAIN tbl)

\* Mutant: the batch is counted before the statement is known to succeed.
UpdateBatchResult_CountsFailed(tbl, total_updated, batch, thumbnail_path, ok) ==
    IF ok THEN [files |-> ApplyBatch(tbl, batch, thumbnail_path),
                total_updated |-> total_updated + RowCount(tbl, batch)]
    ELSE [files |-> tbl, total_updated |-> total_updated + Len(batch)]

\* One pass of the loop of lines 122-137 over a batch: the table and
\* total_updated afterwards.  ok: execute and commit succeed; otherwise the
\* statement raises and the batch is rolled back.
UpdateBatchResult(tbl, total_updated, batch, thumbnail_path, ok) ==
    IF ok THEN [files |-> ApplyBatch(tbl, batch, thumbnail_path),
                total_updated |-> total_updated + RowCount(tbl, batch)]
    ELSE [files |-> tbl, total_updated |-> total_updated]

GroupIds(g) == th.groups[g]

\* Lines 505-539: the next group, its representative (some member of the
\* group) and extract_single_frame on it, which returns the path of a new
\* thumbnail file or None.
ExtractFrame(representative, frame) ==
    /\ th.pc = "group"
    /\ th.group < Len(th.groups)
    /\ representative \in RangeOf(GroupIds(th.group + 1))
    /\ IF frame THEN
           /\ th' = [th EXCEPT !.pc = "update", !.group = @ + 1, !.path = uuid + 1,
                               !.extracted = TRUE, !.batch = 1, !.failed = {},
                               !.total_updated = 0, !.updated = 0]
           /\ uuid' = uuid + 1
       ELSE
           /\ th' = [th EXCEPT !.group = @ + 1, !.path = 0, !.extracted = FALSE,
                               !.batch = 0, !.failed = {}, !.total_updated = 0,
                               !.updated = 0,
                               !.total_failed = @ + Len(GroupIds(th.group + 1))]
           /\ uuid' = uuid
    /\ UNCHANGED <<drives, files, ncmds, ret, runs>>

\* update_thumbnails_for_rdc_group, one batch.
UpdateBatch(ok) ==
    /\ th.pc = "update"
    /\ th.batch <= NumBatches(GroupIds(th.group))
    /\ LET u == UpdateBatchResult(files, th.total_updated,
                                  Batch(GroupIds(th.group), th.batch), th.path, ok)
       IN  /\ files' = u.files
           /\ th' = [th EXCEPT !.batch = @ + 1,
                               !.total_updated = u.total_updated,
                               !.failed = IF ok THEN @ ELSE @ \cup {th.batch}]
    /\ UNCHANGED <<drives, uuid, ncmds, ret, runs>>

\* return total_updated, and the caller's accounting (lines 550-559).
ReturnUpdated ==
    /\ th.pc = "update"
    /\ th.batch > NumBatches(GroupIds(th.group))
    /\ th' = [th EXCEPT !.pc = "group", !.updated = th.total_updated,
                        !.total_processed = @ + 1,
                        !.total_files_updated = @ + th.total_updated,
                        !.total_failed = IF th.total_updated > 0 THEN @
                                         ELSE @ + Len(GroupIds(th.group))]
    /\ UNCHANGED <<drives, files, uuid, ncmds, ret, runs>>

NextThumbs ==
    \/ \E representative \in DOMAIN files, frame \in BOOLEAN :
          ExtractFrame(representative, frame)
    \/ \E ok \in BOOLEAN : UpdateBatch(ok)
    \/ ReturnUpdated

\* The sizes of the first clip group: a standalone file, a small clip, a
\* clip of exactly one batch, of one batch and one file, and the largest.
GroupSizes == {1, 2, batch_size, batch_size + 1, MaxGroup}

\* A drive whose R3D files have no thumbnail yet, grouped as
\* group_r3d_files_by_rdc returns them: a first group of n files and a
\* second clip of two files.
InitThumbs ==
    /\ drives = <<[id |-> 1, volume_name |-> "FOOTAGE_01", label |-> "FOOTAGE_01",
                   mount_point |-> "/mnt/FOOTAGE_01"]>>
    /\ \E n \in GroupSizes :
          /\ files = [f \in 2..(n + 3) |->
                         [drive_id |-> 1,
                          path |-> "A001.RDC/A001_C00" \o (IF f <= n + 1 THEN "1" ELSE "2")
                                       \o "_" \o ToString(f) \o ".R3D",
                          size_bytes |-> 1, thumbnail_path |-> 0,
                          transcription_status |-> "pending"]]
          /\ th = [IdleThumbs EXCEPT
                      !.pc = "group",
                      !.groups = <<[i \in 1..n |-> i + 1], <<n + 2, n + 3>>>>]
          /\ uuid = n + 3
    /\ ncmds = 0
    /\ ret = NoCommand
    /\ runs = IdleRuns

SpecThumbs == InitThumbs /\ [][NextThumbs]_vars

----------------------------------------------------------------------------
(* Claims about the catalog command (specification Spec).                  *)

\* C1: after catalog_files has run one or more times for the same drive id
\* over the same files, the files table holds exactly one row per
\* (drive id, relative path): a rescan never adds a second row for a path.
C1_OneRowPerPath ==
    ret.pc = "start" =>
        \A f, g \in DOMAIN files :
            (files[f].drive_id = files[g].drive_id /\ files[f].path = files[g].path)
                => f = g

\* The answer at the duplicate prompt was neither 1 (replace) nor 2 (new).
Skipped(c) == c.asked /\ c.choice \notin {"1", "2"}

\* C8: when the duplicate-drive reconciliation is answered with skip/cancel
\* or anything other than 1 or 2, it returns None and the catalog command
\* leaves the store unchanged: no drive row and no file row is written, and
\* the count of cataloged files is 0 without a walk of the drive.
C8_SkipLeavesStoreUnchanged ==
    [][/\ (ret.pc = "start" /\ ret'.pc = "resolved" /\ Skipped(ret'))
            => (ret'.info = None /\ drives' = drives /\ files' = files)
       /\ (ret.pc = "resolved" /\ ret'.pc = "start" /\ Skipped(ret))
            => (/\ drives' = drives /\ files' = files
                /\ ret'.total_files = 0 /\ ~ret'.walked)]_vars

\* A skipped catalog command has completed on a store that holds files.
C8_Witness ==
    /\ ret.pc = "start" /\ Skipped(ret) /\ ret.choice \in {"3", "x"}
    /\ DOMAIN files # {} /\ ncmds >= 2

\* C9: with a non-empty list of prior drives of the candidate's volume name
\* and a replace decision that selects prior drive P, the drive returned by
\* handle_duplicate_drive has P's id; with one prior drive, P is that drive.
C9_ReplaceReusesPriorId ==
    (ret.pc = "resolved" /\ ret.asked /\ ret.choice = "1" /\ ret.pos # 0) =>
        /\ ret.pos \in 1..Len(ret.duplicates)
        /\ ret.info.id = ret.duplicates[ret.pos].id
        /\ ret.info.id \in DriveIds
        /\ ret.info.id # ret.candidate.id
        /\ ret.duplicates[ret.pos].volume_name = ret.candidate.volume_name
        /\ Len(ret.duplicates) = 1 => ret.info.id = ret.duplicates[1].id

\* The second of two prior drives is selected for replacement.
C9_Witness ==
    /\ ret.pc = "resolved" /\ ret.asked /\ ret.choice = "1"
    /\ Len(ret.duplicates) = 2 /\ ret.pos = 2
    /\ ret.info.id = ret.duplicates[2].id

\* C10: when no drive row has the candidate's volume name, get_drive_info
\* returns the candidate unchanged, with its freshly generated id, asks for
\* no decision and modifies nothing in the store.
C10_NoPriorReturnsCandidate ==
    [][(/\ ret.pc = "start" /\ ret'.pc = "resolved" /\ ret'.candidate # None
        /\ \A i \in 1..Len(drives) :
              drives[i].volume_name # ret'.candidate.volume_name)
          => (/\ ret'.info = ret'.candidate
              /\ ~ret'.asked
              /\ ret'.info.id = uuid + 1
              /\ ret'.info.id \notin DriveIds \cup DOMAIN files
              /\ ret'.info.label = ""
              /\ ret'.info.mount_point = ret'.mount_point
              /\ drives' = drives /\ files' = files)]_vars

\* A volume that is new to a store which already holds another volume.
C10_Witness ==
    /\ ret.pc = "resolved" /\ ~ret.asked /\ ret.info # None
    /\ ret.info = ret.candidate /\ drives # <<>>

----------------------------------------------------------------------------
(* Claims about the transcription runs.                                    *)

ResultsOf(r) == {runs[r].results[i] : i \in 1..Len(runs[r].results)}

\* A thread of run r is transcribing file f.
Transcribing(r, f) ==
    \E w \in 1..MaxWorkers :
        runs[r].workers[w].pc = "transcribing" /\ runs[r].workers[w].id = f

\* Run r has set file f to 'processing' and stored its final status.
Resolved(r, f) == \E x \in ResultsOf(r) : x.id = f /\ x.claimed

\* Run r has set file f to 'processing'.
ClaimedBy(r, f) == Transcribing(r, f) \/ Resolved(r, f)

\* C2: when two process_transcriptions runs execute concurrently against
\* the same store, no file row is claimed (set to 'processing' and
\* transcribed) by both runs.
C2_NoDoubleClaim ==
    \A f \in DOMAIN files : Cardinality({r \in Runs : ClaimedBy(r, f)}) <= 1

\* C3: in every interleaving of process_transcriptions runs, a file row
\* whose transcription_status is 'completed' or 'error' is never set back
\* to 'processing' by process_file.
C3_NoRegression ==
    [][\A f \in DOMAIN files :
          files[f].transcription_status \in {"completed", "error"}
              => files'[f].transcription_status # "processing"]_vars

\* The file ids of the snapshot of run r.
SnapshotIds(r) == {runs[r].pending_files[i].id : i \in 1..Len(runs[r].pending_files)}

Queued(r, f) == Cardinality({i \in 1..Len(runs[r].queue) : runs[r].queue[i].id = f})
Handed(r, f) ==
    Cardinality({w \in 1..MaxWorkers :
                    runs[r].workers[w].pc # "idle" /\ runs[r].workers[w].id = f})
    + Cardinality({i \in 1..Len(runs[r].results) : runs[r].results[i].id = f})

\* C5: within one run, for every max_workers >= 1, each file id of the
\* pending snapshot is handed to exactly one process_file invocation: no
\* two workers claim the same file id or report success for the same id.
C5_OneInvocationPerFile ==
    runs[1].pc \in {"running", "done"} =>
        /\ \A f \in SnapshotIds(1) : Queued(1, f) + Handed(1, f) = 1
        /\ \A f \in DOMAIN files \ SnapshotIds(1) : Queued(1, f) + Handed(1, f) = 0
        /\ Len(runs[1].pending_files) = Cardinality(SnapshotIds(1))
        /\ \A f \in DOMAIN files :
              Cardinality({i \in 1..Len(runs[1].results) :
                              runs[1].results[i].id = f /\ runs[1].results[i].ok}) <= 1
        /\ runs[1].pc = "done" => \A f \in SnapshotIds(1) : Handed(1, f) = 1

\* Two threads have transcribed two different files of one snapshot.
C5_Witness ==
    /\ runs[1].pc = "done" /\ runs[1].max_workers = 2
    /\ \E x, y \in ResultsOf(1) : x.id # y.id /\ x.ok /\ y.ok

----------------------------------------------------------------------------
(* Claims about the thumbnail pass (specification SpecThumbs).             *)

\* The group whose processing has just ended, and its members.
GroupDone == th.pc = "group" /\ th.group >= 1
Members == RangeOf(GroupIds(th.group))
WithThumbnail == {f \in Members : files[f].thumbnail_path # 0}

FailedMembers == UNION {RangeOf(Batch(GroupIds(th.group), k)) : k \in th.failed}

----------------------------------------------------------------------------
(* Further claims about the catalog command (specification Spec).          *)

\* The rows of table new at the ids of table old are the rows of old.
FilesKept(old, new) ==
    /\ DOMAIN old \subseteq DOMAIN new
    /\ \A f \in DOMAIN old : new[f] = old[f]

\* C11: with one or more prior drives of the same volume name and decision
\* 'new', the catalog run adds exactly one drive row whose id differs from
\* every prior drive id and whose volume name is the same, and it leaves
\* the prior drive rows and their file rows unchanged.
C11_NewAddsOneDrive ==
    [][/\ (ret.pc = "start" /\ ret'.pc = "resolved" /\ ret'.asked /\ ret'.choice = "2")
            => (/\ drives' = drives /\ files' = files
                /\ ret'.info = ret'.candidate
                /\ ret'.info.id \notin DriveIds)
       /\ (ret.pc = "resolved" /\ ret'.pc = "start" /\ ret.asked /\ ret.choice = "2")
            => (/\ Len(drives') = Len(drives) + 1
                /\ SubSeq(drives', 1, Len(drives)) = drives
                /\ drives'[Len(drives')].id \notin DriveIds
                /\ drives'[Len(drives')].id = ret.candidate.id
                /\ drives'[Len(drives')].volume_name = ret.candidate.volume_name
                /\ \E i \in 1..Len(drives) :
                      drives[i].volume_name = drives'[Len(drives')].volume_name
                /\ FilesKept(files, files')
                /\ \A f \in DOMAIN files' \ DOMAIN files :
                      files'[f].drive_id = ret.candidate.id)]_vars

\* A volume catalogued a second time as a new entry, both with files.
C11_Witness ==
    /\ ret.pc = "start" /\ ret.asked /\ ret.choice = "2" /\ ret.walked
    /\ Len(drives) = 2 /\ drives[1].volume_name = drives[2].volume_name
    /\ drives[1].id # drives[2].id
    /\ \E f, g \in DOMAIN files :
          files[f].drive_id = drives[1].id /\ files[g].drive_id = drives[2].id

----------------------------------------------------------------------------
(* handle_duplicate_drive on its own: a store that holds one or more prior *)
(* entries of the volume, and one call with every combination of           *)
(* arguments and typed answers (specification SpecReconcile).              *)

PriorLabels == {"FOOTAGE_01", "Reel A"}

\* get_drive_info, lines 376-385: the call with the candidate of the volume.
HandleDuplicateDrive(batch_mode, default_choice, in_choice, in_idx, in_clear) ==
    /\ ret.pc = "start"
    /\ LET duplicates == check_for_duplicate_drive("FOOTAGE_01")
           candidate == [id |-> uuid + 1, volume_name |-> "FOOTAGE_01",
                         label |-> "", mount_point |-> "/mnt/FOOTAGE_01"]
           r == handle_duplicate_drive(duplicates, candidate, batch_mode,
                                       default_choice, in_choice, in_idx, in_clear)
           choice == EffectiveChoice(batch_mode, default_choice, in_choice)
       IN  /\ duplicates # <<>>
           /\ files' = IF r.cleared # 0 THEN delete_files_for_drive(files, r.cleared)
                       ELSE files
           /\ uuid' = uuid + 1
           /\ ret' = [pc |-> "returned", batch_mode |-> batch_mode,
                      default_choice |-> default_choice, in_choice |-> in_choice,
                      in_idx |-> in_idx, in_clear |-> in_clear,
                      duplicates |-> duplicates, candidate |-> candidate,
                      info |-> r.info, cleared |-> r.cleared, choice |-> choice,
                      pos |-> IF choice = "1"
                              THEN ReplacePosition(duplicates, batch_mode,
                                                   default_choice, in_idx)
                              ELSE 0,
                      prompts |-> Prompts(duplicates, batch_mode, default_choice,
                                          in_choice, in_idx)]
    /\ UNCHANGED <<drives, ncmds, runs, th>>

NextReconcile ==
    \E batch_mode \in BOOLEAN, default_choice \in DuplicateChoices,
       in_choice \in Answers, in_idx \in IndexAnswers, in_clear \in ClearAnswers :
        HandleDuplicateDrive(batch_mode, default_choice, in_choice, in_idx, in_clear)

\* 1..MaxPriors entries of the volume, in the order they were catalogued,
\* each with one file row.
InitReconcile ==
    /\ \E n \in 1..MaxPriors : \E labels \in [1..n -> PriorLabels] :
          /\ drives = [i \in 1..n |->
                          [id |-> i, volume_name |-> "FOOTAGE_01", label |-> labels[i],
                           mount_point |-> "/mnt/FOOTAGE_01"]]
          /\ files = [f \in (n + 1)..(2 * n) |->
                         [drive_id |-> f - n, path |-> "clip.mov", size_bytes |-> 3,
                          thumbnail_path |-> 0, transcription_status |-> "pending"]]
          /\ uuid = 2 * n
    /\ ncmds = 0
    /\ ret = NoCommand
    /\ runs = IdleRuns
    /\ th = IdleThumbs

SpecReconcile == InitReconcile /\ [][NextReconcile]_vars

\* The call was made in batch mode / with a predetermined choice.
Returned == ret.pc = "returned"
Preset == ret.batch_mode /\ ret.default_choice # 0

\* C12 as stated: in every batch-mode invocation of handle_duplicate_drive
\* the decision, the entry to replace and the clear-files choice are taken
\* from the preconfigured default and no interactive input is awaited.
C12_BatchNeverPrompts ==
    (Returned /\ ret.batch_mode) =>
        /\ ret.prompts = {}
        /\ ret.choice = str(ret.default_choice)
        /\ ret.choice = "1" => (ret.pos = 1 /\ ret.cleared = 0)

\* C12 amended: in every batch-mode invocation that is given a default
\* choice, the decision is that choice, the entry to replace is the first
\* one, the files are kept, no input is awaited and the typed answers have
\* no influence on the result; a batch-mode invocation without a default
\* choice asks for the decision like an interactive one.
C12_PresetNeverPrompts ==
    /\ (Returned /\ Preset) =>
          /\ ret.prompts = {}
          /\ ret.choice = str(ret.default_choice)
          /\ ret.choice = "1" =>
                (ret.pos = 1 /\ ret.info.id = ret.duplicates[1].id /\ ret.cleared = 0)
          /\ ret.choice = "2" => ret.info = ret.candidate
          /\ ret.choice = "3" => ret.info = None
          /\ ret.cleared = 0
          /\ \A i \in 1..Len(drives) : \E f \in DOMAIN files : files[f].drive_id = drives[i].id
          /\ \A a \in Answers, i \in IndexAnswers, c \in ClearAnswers :
                handle_duplicate_drive(ret.duplicates, ret.candidate, TRUE,
                                       ret.default_choice, a, i, c)
                    = [info |-> ret.info, cleared |-> ret.cleared]
    /\ (Returned /\ ret.batch_mode /\ ret.default_choice = 0) =>
          ("choice" \in ret.prompts /\ ret.choice = ret.in_choice)

\* Batch mode with choice 1 and two prior entries: the first is replaced
\* although the typed answers name the second and ask to clear the files.
C12_Witness ==
    /\ Returned /\ Preset /\ ret.default_choice = 1
    /\ Len(ret.duplicates) = 2 /\ ret.in_idx = "2" /\ ret.in_clear = "y"
    /\ ret.in_choice = "3"
    /\ ret.info.id = ret.duplicates[1].id /\ ret.cleared = 0

----------------------------------------------------------------------------
(* extract_single_frame step by step, with the REDline child process as a  *)
(* concurrent process (specification SpecExtract).  The pass record th     *)
(* carries the state of the call in its field x.                           *)

\* The state before a call: no child, no temporary directory.
NoExtract == [child |-> "none", stage |-> "starting", temp_dir |-> FALSE,
              frame |-> "none", expired |-> FALSE, timed_out |-> FALSE,
              returncode |-> "None", result |-> 0, made |-> FALSE]

\* The child has been started and has not ended yet (a child that was sent
\* SIGTERM by process.terminate() runs until the signal ends it).
ChildAlive == th.x.child \in {"running", "terminated"}

\* for frame_path in sorted(generated_frames): getsize > 0 (lines 235-239).
ValidFrame(frame) == frame = "nonempty"

\* Mutant: any file matching frame_*.jpg is taken, whatever its size and
\* whatever the return code.
AfterLoopResult_AnyFrame(returncode, frame, copy_ok, path) ==
    IF frame # "none" /\ copy_ok THEN path ELSE 0

\* Lines 249-265: what the function returns after the polling loop
\* (0 is None); copy_ok is whether shutil.copy2 succeeds.
AfterLoopResult(returncode, frame, copy_ok, path) ==
    IF returncode = "0" /\ ValidFrame(frame) /\ copy_ok THEN path ELSE 0

\* Lines 505-539 and 187-222: the next group, its representative, the
\* temporary directory and subprocess.Popen, which raises when the tool
\* cannot be started.
StartExtract(representative, popen_ok) ==
    /\ th.pc = "group"
    /\ th.group < Len(th.groups)
    /\ representative \in RangeOf(GroupIds(th.group + 1))
    /\ th' = [th EXCEPT !.pc = IF popen_ok THEN "poll" ELSE "cleanup",
                        !.group = @ + 1, !.path = 0, !.extracted = FALSE,
                        !.batch = 0, !.failed = {}, !.total_updated = 0,
                        !.updated = 0,
                        !.x = [NoExtract EXCEPT
                                  !.temp_dir = TRUE,
                                  !.child = IF popen_ok THEN "running" ELSE "none"]]
    /\ UNCHANGED <<drives, files, uuid, ncmds, ret, runs>>

\* The wall clock passes the deadline.
Tick ==
    /\ th.pc \in {"poll", "glob"}
    /\ ~th.x.expired
    /\ th' = [th EXCEPT !.x.expired = TRUE]
    /\ UNCHANGED <<drives, files, uuid, ncmds, ret, runs>>

\* The child creates its output file in the temporary directory.
ChildCreates ==
    /\ ChildAlive /\ th.x.stage = "starting" /\ th.x.temp_dir
    /\ th' = [th EXCEPT !.x.stage = "created", !.x.frame = "empty"]
    /\ UNCHANGED <<drives, files, uuid, ncmds, ret, runs>>

\* The child writes the image into its output file (a file that has been
\* unlinked meanwhile stays invisible).
ChildWrites ==
    /\ ChildAlive /\ th.x.stage = "created"
    /\ th' = [th EXCEPT !.x.stage = "written",
                        !.x.frame = IF @ = "empty" THEN "nonempty" ELSE @,
                        !.x.made = @ \/ (th.x.frame = "empty"
                                         /\ th.pc \in {"poll", "glob"})]
    /\ UNCHANGED <<drives, files, uuid, ncmds, ret, runs>>

\* The child ends by itself with return code rc.
ChildExits(rc) ==
    /\ th.x.child = "running"
    /\ th' = [th EXCEPT !.x.child = "exited" \o rc]
    /\ UNCHANGED <<drives, files, uuid, ncmds, ret, runs>>

\* SIGTERM ends the child.
ChildDies ==
    /\ th.x.child = "terminated"
    /\ th' = [th EXCEPT !.x.child = "dead"]
    /\ UNCHANGED <<drives, files, uuid, ncmds, ret, runs>>

\* while process.poll() is None: the timeout check and the sleep
\* (lines 225-232); a child that has ended leaves the loop.
Poll ==
    /\ th.pc = "poll"
    /\ th' = IF th.x.child = "running" THEN
                 IF th.x.expired
                 THEN [th EXCEPT !.pc = "after", !.x.timed_out = TRUE,
                                 !.x.child = "terminated"]
                 ELSE [th EXCEPT !.pc = "glob"]
             ELSE [th EXCEPT !.pc = "after",
                             !.x.returncode = IF th.x.child = "exited0" THEN "0" ELSE "1"]
    /\ UNCHANGED <<drives, files, uuid, ncmds, ret, runs>>

\* Lines 234-247: a valid frame found while polling is copied, the child is
\* terminated and the path returned; an exception of the copy reaches the
\* handler of lines 267-269 with the child left as it is.
Glob(copy_ok) ==
    /\ th.pc = "glob"
    /\ IF ValidFrame(th.x.frame) THEN
           /\ th' = IF copy_ok
                    THEN [th EXCEPT !.pc = "cleanup", !.x.result = uuid + 1,
                                    !.x.child = IF @ = "running" THEN "terminated" ELSE @]
                    ELSE [th EXCEPT !.pc = "cleanup", !.x.result = 0]
           /\ uuid' = IF copy_ok THEN uuid + 1 ELSE uuid
       ELSE
           /\ copy_ok
           /\ th' = [th EXCEPT !.pc = "poll"]
           /\ uuid' = uuid
    /\ UNCHANGED <<drives, files, ncmds, ret, runs>>

\* Lines 249-265: after the loop.
AfterLoop(copy_ok) ==
    /\ th.pc = "after"
    /\ (copy_ok \/ (th.x.returncode = "0" /\ ValidFrame(th.x.frame)))
    /\ LET result == AfterLoopResult(th.x.returncode, th.x.frame, copy_ok, uuid + 1)
       IN  /\ th' = [th EXCEPT !.pc = "cleanup", !.x.result = result]
           /\ uuid' = IF result # 0 THEN uuid + 1 ELSE uuid
    /\ UNCHANGED <<drives, files, ncmds, ret, runs>>

\* finally: shutil.rmtree(temp_dir), first half: the entries of the
\* directory are unlinked.
RmtreeUnlink ==
    /\ th.pc = "cleanup"
    /\ th' = [th EXCEPT !.pc = "rmdir", !.x.frame = "none"]
    /\ UNCHANGED <<drives, files, uuid, ncmds, ret, runs>>

\* shutil.rmtree(temp_dir), second half: rmdir fails on a directory that
\* is not empty, and the exception is printed and dropped (lines 272-278).
RmtreeRmdir ==
    /\ th.pc = "rmdir"
    /\ th' = [th EXCEPT !.pc = "returned",
                        !.x.temp_dir = IF th.x.frame = "none" THEN FALSE ELSE @]
    /\ UNCHANGED <<drives, files, uuid, ncmds, ret, runs>>

\* Back in process_r3d_thumbnails, lines 539-565.
ReturnFrame ==
    /\ th.pc = "returned"
    /\ th' = IF th.x.result # 0
             THEN [th EXCEPT !.pc = "update", !.path = th.x.result,
                             !.extracted = TRUE, !.batch = 1]
             ELSE [th EXCEPT !.pc = "group",
                             !.total_failed = @ + Len(GroupIds(th.group))]
    /\ UNCHANGED <<drives, files, uuid, ncmds, ret, runs>>

NextExtract ==
    \/ \E representative \in DOMAIN files, popen_ok \in BOOLEAN :
          StartExtract(representative, popen_ok)
    \/ Tick
    \/ ChildCreates
    \/ ChildWrites
    \/ \E rc \in {"0", "1"} : ChildExits(rc)
    \/ ChildDies
    \/ Poll
    \/ \E copy_ok \in BOOLEAN : Glob(copy_ok)
    \/ \E copy_ok \in BOOLEAN : AfterLoop(copy_ok)
    \/ RmtreeUnlink
    \/ RmtreeRmdir
    \/ ReturnFrame
    \/ \E ok \in BOOLEAN : UpdateBatch(ok)
    \/ ReturnUpdated

\* A drive with a standalone R3D file and a clip of two files, none with a
\* thumbnail.
InitExtract ==
    /\ drives = <<[id |-> 1, volume_name |-> "FOOTAGE_01", label |-> "FOOTAGE_01",
                   mount_point |-> "/mnt/FOOTAGE_01"]>>
    /\ files = [f \in 2..4 |->
                   [drive_id |-> 1,
                    path |-> IF f = 2 THEN "B001_C001_001.R3D"
                             ELSE "A001.RDC/A001_C001_00" \o ToString(f) \o ".R3D",
                    size_bytes |-> 1, thumbnail_path |-> 0,
                    transcription_status |-> "pending"]]
    /\ th = [x |-> NoExtract] @@
            [IdleThumbs EXCEPT !.pc = "group", !.groups = <<<<2>>, <<3, 4>>>>]
    /\ uuid = 4
    /\ ncmds = 0
    /\ ret = NoCommand
    /\ runs = IdleRuns

SpecExtract == InitExtract /\ [][NextExtract]_vars

\* C13: extract_single_frame removes its private temporary directory on
\* every exit path (frame found while polling, frame found after the tool
\* exits, timeout, non-zero exit code, no frame produced, exception), so
\* after it returns the temporary directory no longer exists.
C13_TempDirRemoved ==
    th.pc = "returned" => ~th.x.temp_dir

----------------------------------------------------------------------------
(* The walk of catalog_files (specification Spec).                         *)

\* The rows that table new has and table old has not, for drive drive_id
\* and path p.
NewRows(old, new, drive_id, p) ==
    {f \in DOMAIN new \ DOMAIN old : new[f].drive_id = drive_id /\ new[f].path = p}

\* C15: an exception raised while catalog_files processes one file is
\* counted in error_count and the walk continues with the next file: it
\* never terminates the scan and never prevents the rows of later files
\* from being written.
C15_ErrorsAreCounted ==
    (ret.pc = "resolved" /\ ret.info # None) =>
        LET W == WalkedPaths(ret.mount_point)
        IN  \A errs \in SUBSET W :
            \A thumbs \in SUBSET {p \in W \ errs : IsVideo(guess_type(p))} :
                LET c == catalog_files(ret.info, errs, thumbs)
                IN  /\ c.walked
                    /\ c.error_count = Cardinality(errs)
                    /\ c.total_files = Cardinality(W \ errs)
                    /\ c.skipped_count = Len(os_walk(ret.mount_point)) - Cardinality(W)
                    /\ \A p \in W \ errs :
                          Cardinality(NewRows(files, c.files, ret.info.id, p)) = 1
                    /\ \A p \in errs : NewRows(files, c.files, ret.info.id, p) = {}
                    /\ FilesKept(files, c.files)

\* A scan whose first file raised and whose second file was written.
C15_Witness ==
    /\ ret.pc = "start" /\ ret.walked /\ ret.mount_point = "/mnt/AUDIO_02"
    /\ ret.total_files = 1
    /\ \E f \in DOMAIN files : files[f].drive_id = ret.info.id /\ files[f].path = "take.wav"
    /\ \A f \in DOMAIN files : files[f].path # "notes.txt"

----------------------------------------------------------------------------
(* clean_duplicate_drives, run between catalog commands (specification     *)
(* SpecCleanup).                                                           *)

Volumes == {basename(m) : m \in Mounts}

\* SELECT * FROM drives WHERE volume_name = ?  on a given drives table.
DrivesNamed(tbl, volume_name) == SelectSeq(tbl, LAMBDA d : d.volume_name = volume_name)

\* SELECT volume_name, COUNT(*) ... GROUP BY volume_name HAVING count > 1
\* ORDER BY count DESC: every order the query may return (the order of
\* volumes with equal counts is not determined).
DuplicateOrders(tbl) ==
    LET Vs == {v \in Volumes : Len(DrivesNamed(tbl, v)) > 1}
    IN  {s \in [1..Cardinality(Vs) -> Vs] :
            \A i, j \in 1..Cardinality(Vs) :
                i < j => /\ s[i] # s[j]
                         /\ Len(DrivesNamed(tbl, s[i])) >= Len(DrivesNamed(tbl, s[j]))}

\* UPDATE files SET drive_id = ? WHERE drive_id = ?
ReassignFiles(tbl, to_id, from_id) ==
    [f \in DOMAIN tbl |-> IF tbl[f].drive_id = from_id
                          THEN [tbl[f] EXCEPT !.drive_id = to_id] ELSE tbl[f]]

\* Mutant: the entries are deleted, their files are left as they are.
RECURSIVE ProcessDeletion_KeepsFiles(_, _, _, _, _)
ProcessDeletion_KeepsFiles(st, drive_rows, i, idx, reassign_files) ==
    IF i > Len(drive_rows) THEN st
    ELSE IF i = idx
         THEN ProcessDeletion_KeepsFiles(st, drive_rows, i + 1, idx, reassign_files)
    ELSE ProcessDeletion_KeepsFiles(
             [st EXCEPT !.drives = SelectSeq(@, LAMBDA d : d.id # drive_rows[i].id)],
             drive_rows, i + 1, idx, reassign_files)

\* Lines 1627-1646: every entry but the kept one loses its files (deleted
\* or reassigned to the kept entry) and is deleted.
RECURSIVE ProcessDeletion(_, _, _, _, _)
ProcessDeletion(st, drive_rows, i, idx, reassign_files) ==
    IF i > Len(drive_rows) THEN st
    ELSE IF i = idx THEN ProcessDeletion(st, drive_rows, i + 1, idx, reassign_files)
    ELSE ProcessDeletion(
             [drives |-> SelectSeq(st.drives, LAMBDA d : d.id # drive_rows[i].id),
              files |-> IF reassign_files
                        THEN ReassignFiles(st.files, drive_rows[idx].id, drive_rows[i].id)
                        ELSE delete_files_for_drive(st.files, drive_rows[i].id)],
             drive_rows, i + 1, idx, reassign_files)

\* The answers for one volume: the prompts that are not shown get "x".
CleanPrompts(n) ==
    {[choice |-> c, keep_idx |-> "x", file_choice |-> "x"] : c \in {"2", "3", "x"}}
    \cup {[choice |-> "1", keep_idx |-> i, file_choice |-> "x"] :
             i \in {k \in IndexAnswers : ~(IsNumber(k) /\ int(k) \in 1..n)}}
    \cup {[choice |-> "1", keep_idx |-> i, file_choice |-> c] :
             i \in {k \in IndexAnswers : IsNumber(k) /\ int(k) \in 1..n},
             c \in {"1", "2", "x"}}

\* The answers of one run: one record per duplicate set.
CleanAnswers(duplicates) ==
    {a \in [RangeOf(duplicates) -> CleanPrompts(Len(drives))] :
        \A v \in RangeOf(duplicates) : a[v] \in CleanPrompts(Len(DrivesNamed(drives, v)))}

\* Lines 1566-1659: the loop over the duplicate sets from position k on.
RECURSIVE CleanVolumes(_, _, _, _)
CleanVolumes(st, duplicates, k, answers) ==
    IF k > Len(duplicates) THEN st
    ELSE LET a == answers[duplicates[k]]
             drive_rows == DrivesNamed(st.drives, duplicates[k])
         IN  IF a.choice = "1" THEN
                 IF /\ IsNumber(a.keep_idx)
                    /\ 0 <= int(a.keep_idx) - 1
                    /\ int(a.keep_idx) - 1 < Len(drive_rows)
                 THEN CleanVolumes(ProcessDeletion(st, drive_rows, 1, int(a.keep_idx),
                                                   a.file_choice = "2"),
                                   duplicates, k + 1, answers)
                 ELSE CleanVolumes(st, duplicates, k + 1, answers)
             ELSE IF a.choice = "3" THEN st
             ELSE CleanVolumes(st, duplicates, k + 1, answers)

\* clean_duplicate_drives: the tables after the call.
clean_duplicate_drives(duplicates, answers) ==
    CleanVolumes([drives |-> drives, files |-> files], duplicates, 1, answers)

\* The cleanup command, with duplicate entries in the store (without any
\* the function returns at line 1557 and nothing changes).
CleanDuplicateDrives(duplicates, answers) ==
    /\ ret.pc = "start"
    /\ duplicates \in DuplicateOrders(drives)
    /\ duplicates # <<>>
    /\ LET c == clean_duplicate_drives(duplicates, answers)
       IN  /\ drives' = c.drives
           /\ files' = c.files
    /\ UNCHANGED <<uuid, ncmds, ret, runs, th>>

\* Catalog commands without --label and without thumbnails (neither has
\* an influence on the ids of the rows), and clean-ups between them.
NextCleanup ==
    \/ /\ ret.pc = "start" /\ ncmds < MaxCommands
       /\ \E m \in Mounts, exists \in BOOLEAN, batch_mode \in BOOLEAN,
          duplicate_choice \in DuplicateChoices :
          \E in_choice \in ChoicePrompt(m, exists, batch_mode, duplicate_choice) :
          \E in_idx \in IndexPrompt(m, exists, batch_mode, duplicate_choice, in_choice) :
          \E in_clear \in ClearPrompt(m, exists, batch_mode, duplicate_choice,
                                      in_choice, in_idx) :
            GetDriveInfo(m, exists, batch_mode, duplicate_choice,
                         in_choice, in_idx, in_clear)
    \/ /\ ret.pc = "resolved"
       /\ \E errs \in SUBSET WalkedPaths(ret.mount_point) : CatalogFiles("", errs, {})
    \/ /\ ret.pc = "start"
       /\ \E duplicates \in DuplicateOrders(drives) :
          \E answers \in CleanAnswers(duplicates) :
            CleanDuplicateDrives(duplicates, answers)

SpecCleanup == Init /\ [][NextCleanup]_vars

\* C16: after any sequence of catalog runs, reconciliation decisions
\* (replace with or without clearing files, new, skip) and duplicate
\* clean-ups (delete or reassign), every file row's drive_id is the id of
\* an existing drive row.
C16_FilesHaveDrive ==
    \A f \in DOMAIN files : files[f].drive_id \in DriveIds

\* A clean-up with reassignment has merged two entries of a volume.
C16_Witness ==
    /\ ret.pc = "start" /\ ret.asked /\ ret.choice = "2" /\ ret.walked
    /\ Len(drives) = 1 /\ ret.info.id \notin DriveIds
    /\ Cardinality(DOMAIN files) = 2
    /\ \A f \in DOMAIN files : files[f].drive_id = drives[1].id

----------------------------------------------------------------------------
(* Paths as sequences of characters, and the string functions that         *)
(* get_rdc_group_key and select_representative_r3d apply to them.          *)

UpperCase == <<"A", "B", "C", "D", "E", "F", "G", "H", "I", "J", "K", "L", "M", "N", "O", "P", "Q", "R", "S", "T", "U", "V", "W", "X", "Y", "Z">>
LowerCase == <<"a", "b", "c", "d", "e", "f", "g", "h", "i", "j", "k", "l", "m", "n", "o", "p", "q", "r", "s", "t", "u", "v", "w", "x", "y", "z">>
Digits == {"0", "1", "2", "3", "4", "5", "6", "7", "8", "9"}

\* The characters of the model in the order of their code points.
CodePoints == <<".", "/">> \o <<"0", "1", "2", "3", "4", "5", "6", "7", "8", "9">>
              \o UpperCase \o <<"_">> \o LowerCase

IndexIn(seq, c) == CHOOSE i \in 1..Len(seq) : seq[i] = c

\* ord(c)
ord(c) == IndexIn(CodePoints, c)

\* str.upper()
upper(s) == [i \in 1..Len(s) |-> IF s[i] \in RangeOf(LowerCase)
                                 THEN UpperCase[IndexIn(LowerCase, s[i])] ELSE s[i]]

\* str.endswith(suffix)
endswith(s, suffix) ==
    Len(s) >= Len(suffix) /\ SubSeq(s, Len(s) - Len(suffix) + 1, Len(s)) = suffix

\* The position of the last os.sep of a path, 0 when there is none.
LastSep(path) ==
    IF \E i \in 1..Len(path) : path[i] = "/"
    THEN CHOOSE i \in 1..Len(path) :
            path[i] = "/" /\ \A j \in (i + 1)..Len(path) : path[j] # "/"
    ELSE 0

\* os.path.dirname(path): the head of the split at the last separator,
\* without its trailing separator unless it is the root.
os_path_dirname(path) ==
    IF LastSep(path) <= 1 THEN SubSeq(path, 1, LastSep(path))
    ELSE SubSeq(path, 1, LastSep(path) - 1)

\* os.path.basename(path)
os_path_basename(path) == SubSeq(path, LastSep(path) + 1, Len(path))

\* os.path.normpath on a path without "..", "." and doubled separators:
\* the empty path becomes ".".
os_path_normpath(path) == IF path = <<>> THEN <<".">> ELSE path

\* str.split(os.sep)
RECURSIVE split(_)
split(s) ==
    IF \A i \in 1..Len(s) : s[i] # "/" THEN <<s>>
    ELSE LET i == CHOOSE k \in 1..Len(s) :
                      s[k] = "/" /\ \A j \in 1..(k - 1) : s[j] # "/"
         IN  <<SubSeq(s, 1, i - 1)>> \o split(SubSeq(s, i + 1, Len(s)))

\* The tail .*\.[Rr]3[Dd]$ of both filename patterns, after a prefix of
\* nine characters.
R3DTail(file_name) ==
    /\ Len(file_name) >= 13
    /\ file_name[Len(file_name) - 3] = "."
    /\ file_name[Len(file_name) - 2] \in {"R", "r"}
    /\ file_name[Len(file_name) - 1] = "3"
    /\ file_name[Len(file_name)] \in {"D", "d"}

\* A prefix X\d{3}_X\d{3} with the letters X taken from the set letters.
ClipPrefix(file_name, letters) ==
    /\ Len(file_name) >= 9
    /\ file_name[1] \in letters /\ file_name[6] \in letters
    /\ \A i \in {2, 3, 4, 7, 8, 9} : file_name[i] \in Digits
    /\ file_name[5] = "_"

\* re.match(r'^([A-Z]\d{3}_[A-Z]\d{3}).*\.[Rr]3[Dd]$', file_name): group 1,
\* or <<>> for no match.
clip_match(file_name) ==
    IF ClipPrefix(file_name, RangeOf(UpperCase)) /\ R3DTail(file_name)
    THEN SubSeq(file_name, 1, 9) ELSE <<>>

\* None for a group key.
NoKey == <<>>

\* Mutant: only a folder named exactly RDC counts.
get_rdc_group_key_ExactRDC(file_path) ==
    IF ~endswith(upper(file_path), <<".", "R", "3", "D">>) THEN NoKey
    ELSE LET path_parts == split(os_path_normpath(os_path_dirname(file_path)))
             hits == {i \in 1..Len(path_parts) : path_parts[i] = <<"R", "D", "C">>}
         IN  IF hits = {} THEN NoKey
             ELSE IF clip_match(os_path_basename(file_path)) # <<>>
                  THEN <<"R", "D", "C", "_">> \o clip_match(os_path_basename(file_path))
                  ELSE <<"R", "D", "C">>

\* get_rdc_group_key(file_path)
get_rdc_group_key(file_path) ==
    IF ~endswith(upper(file_path), <<".", "R", "3", "D">>) THEN NoKey
    ELSE LET path_parts == split(os_path_normpath(os_path_dirname(file_path)))
             hits == {i \in 1..Len(path_parts) :
                         \/ upper(path_parts[i]) = <<"R", "D", "C">>
                         \/ endswith(upper(path_parts[i]), <<".", "R", "D", "C">>)}
         IN  IF hits = {} THEN NoKey
             ELSE LET rdc_folder == path_parts[CHOOSE i \in hits : \A j \in hits : i <= j]
                      clip_prefix == clip_match(os_path_basename(file_path))
                  IN  IF clip_prefix # <<>> THEN rdc_folder \o <<"_">> \o clip_prefix
                      ELSE rdc_folder

\* The paths of the model: a mount point, directories and a file name.
MountDir == <<"/", "m", "n", "t", "/", "R", "E", "D">>
DirChoices ==
    {<<>>, <<"/", "A", "0", "0", "1", ".", "R", "D", "C">>, <<"/", "R", "D", "C">>, <<"/", "a", "0", "0", "1", ".", "r", "d", "c">>,
     <<"/", "R", "D", "C", "X">>, <<"/", "A", "0", "0", "1", ".", "R", "D", "C", "/", "B", "0", "0", "2", ".", "R", "D", "C">>, <<"/", "d", "a", "y", "1", "/", "A", "0", "0", "1", ".", "R", "D", "C", "/", "s", "u", "b">>}
NamePrefixes ==
    {<<"A", "0", "0", "1", "_", "C", "0", "0", "1">>, <<"A", "0", "0", "1", "_", "C", "0", "0", "2">>, <<"a", "0", "0", "1", "_", "c", "0", "0", "1">>, <<"A", "0", "1", "_", "C", "0", "0", "0", "1">>, <<"A", "0", "0", "1", "C", "0", "0", "0", "1">>, <<"c", "l", "i", "p">>}
NameRests == {<<>>, <<"_", "0", "0", "1">>}
Extensions == {<<".", "R", "3", "D">>, <<".", "r", "3", "d">>, <<".", "m", "o", "v">>}
FilePaths ==
    {MountDir \o d \o <<"/">> \o n \o r \o e :
        d \in DirChoices, n \in NamePrefixes, r \in NameRests, e \in Extensions}

\* One call of get_rdc_group_key (specification SpecGroupKey).
GetRdcGroupKey ==
    /\ th.pc = "path"
    /\ th' = [th EXCEPT !.pc = "key", !.key = get_rdc_group_key(th.file_path)]
    /\ UNCHANGED <<drives, files, uuid, ncmds, ret, runs>>

NextGroupKey == GetRdcGroupKey

InitGroupKey ==
    /\ drives = <<>>
    /\ files = <<>>
    /\ uuid = 0
    /\ ncmds = 0
    /\ ret = NoCommand
    /\ runs = IdleRuns
    /\ \E file_path \in FilePaths :
          th = [pc |-> "path", file_path |-> file_path, key |-> NoKey]

SpecGroupKey == InitGroupKey /\ [][NextGroupKey]_vars

\* The directory segments of a path, and those naming an RDC folder.
DirSegments(path) == split(os_path_dirname(path))
IsRdcName(seg) ==
    upper(seg) = <<"R", "D", "C">> \/ endswith(upper(seg), <<".", "R", "D", "C">>)
IsR3D(path) == endswith(upper(path), <<".", "R", "3", "D">>)

\* The file name starts with <Letter><3 digits>_<Letter><3 digits>, the
\* letters being capitals as in A001_C001.
HasClipPrefix(path) ==
    LET name == os_path_basename(path)
    IN  /\ Len(name) >= 9
        /\ name[1] \in RangeOf(UpperCase) /\ name[6] \in RangeOf(UpperCase)
        /\ name[5] = "_"
        /\ {name[2], name[3], name[4], name[7], name[8], name[9]} \subseteq Digits

----------------------------------------------------------------------------
(* group_r3d_files_by_rdc (specification SpecGroup).  grouped_files, a     *)
(* dictionary, is the sequence of its items in insertion order.            *)

\* Mutant: the key of a standalone file without its file id.
SingleKey_NoId(file_id) == <<"s", "i", "n", "g", "l", "e", "_">>

\* f"single_{file_id}"
SingleKey(file_id) == <<"s", "i", "n", "g", "l", "e", "_">> \o <<ToString(file_id)>>

\* The position of key in grouped_files, 0 when it is no key of it.
KeyIndex(grouped_files, key) ==
    IF \E j \in 1..Len(grouped_files) : grouped_files[j].key = key
    THEN CHOOSE j \in 1..Len(grouped_files) : grouped_files[j].key = key
    ELSE 0

\* The loop of lines 371-386 from position i on.
RECURSIVE GroupFrom(_, _, _)
GroupFrom(r3d_files, i, grouped_files) ==
    IF i > Len(r3d_files) THEN grouped_files
    ELSE LET file_id == r3d_files[i][1]
             file_path == r3d_files[i][2]
             group_key == get_rdc_group_key(file_path)
             file_key == SingleKey(file_id)
         IN  IF group_key # NoKey THEN
                 IF KeyIndex(grouped_files, group_key) = 0
                 THEN GroupFrom(r3d_files, i + 1,
                                Append(grouped_files,
                                       [key |-> group_key, files |-> <<r3d_files[i]>>]))
                 ELSE GroupFrom(r3d_files, i + 1,
                                [grouped_files EXCEPT
                                    ![KeyIndex(grouped_files, group_key)].files =
                                        Append(@, r3d_files[i])])
             ELSE
                 IF KeyIndex(grouped_files, file_key) = 0
                 THEN GroupFrom(r3d_files, i + 1,
                                Append(grouped_files,
                                       [key |-> file_key, files |-> <<r3d_files[i]>>]))
                 ELSE GroupFrom(r3d_files, i + 1,
                                [grouped_files EXCEPT
                                    ![KeyIndex(grouped_files, file_key)].files =
                                        <<r3d_files[i]>>])

\* group_r3d_files_by_rdc(r3d_files)
group_r3d_files_by_rdc(r3d_files) == GroupFrom(r3d_files, 1, <<>>)

\* The R3D files of the model: standalone files and chunks in RDC folders.
R3DPaths ==
    {MountDir \o d \o <<"/">> \o n \o <<"_", "0", "0", "1", ".", "R", "3", "D">> :
        d \in {<<>>, <<"/", "A", "0", "0", "1", ".", "R", "D", "C">>, <<"/", "d", "a", "y", "1", "/", "r", "d", "c">>},
        n \in {<<"A", "0", "0", "1", "_", "C", "0", "0", "1">>, <<"A", "0", "0", "1", "_", "C", "0", "0", "2">>, <<"a", "0", "0", "1", "_", "c", "0", "0", "1">>, <<"c", "l", "i", "p">>}}

GroupFiles ==
    /\ th.pc = "files"
    /\ th' = [th EXCEPT !.pc = "grouped",
                        !.grouped_files = group_r3d_files_by_rdc(th.r3d_files)]
    /\ UNCHANGED <<drives, files, uuid, ncmds, ret, runs>>

NextGroup == GroupFiles

\* What find_r3d_files_without_thumbnails returns: (id, path) pairs of
\* up to MaxR3D file rows, the ids being those of different rows.
InitGroup ==
    /\ drives = <<>>
    /\ files = <<>>
    /\ uuid = 0
    /\ ncmds = 0
    /\ ret = NoCommand
    /\ runs = IdleRuns
    /\ \E n \in 0..MaxR3D : \E paths \in [1..n -> R3DPaths] :
          th = [pc |-> "files", r3d_files |-> [i \in 1..n |-> <<i + 1, paths[i]>>],
                grouped_files |-> <<>>]

SpecGroup == InitGroup /\ [][NextGroup]_vars

\* The places of the groups: group j, member k.
Slots(grouped_files) ==
    {s \in (1..Len(grouped_files)) \X (1..MaxR3D + 1) :
        s[2] <= Len(grouped_files[s[1]].files)}

\* C17: group_r3d_files_by_rdc partitions its input: every input
\* (file id, path) pair appears in exactly one group, no pair is dropped
\* or duplicated, and a file with no RDC path segment forms a group of
\* exactly one member.
C17_GroupsPartitionInput ==
    th.pc = "grouped" =>
        LET g == th.grouped_files
            in == th.r3d_files
        IN  /\ \A i \in 1..Len(in) :
                  Cardinality({s \in Slots(g) : g[s[1]].files[s[2]] = in[i]}) = 1
            /\ \A s \in Slots(g) : \E i \in 1..Len(in) : g[s[1]].files[s[2]] = in[i]
            /\ Cardinality(Slots(g)) = Len(in)
            /\ \A j, k \in 1..Len(g) : g[j].key = g[k].key => j = k
            /\ \A j \in 1..Len(g) : g[j].files # <<>>
            /\ \A s \in Slots(g) :
                  (\A x \in RangeOf(DirSegments(g[s[1]].files[s[2]][2])) : ~IsRdcName(x))
                      => Len(g[s[1]].files) = 1

\* Two chunks of one clip and one standalone file: a group of two under
\* the clip's key and a group of one under the file's own key.
C17_Witness ==
    /\ th.pc = "grouped" /\ Len(th.r3d_files) = 3 /\ Len(th.grouped_files) = 2
    /\ \E j, k \in 1..2 : /\ Len(th.grouped_files[j].files) = 2
                          /\ Len(th.grouped_files[k].files) = 1
                          /\ th.grouped_files[k].key = SingleKey(th.grouped_files[k].files[1][1])

----------------------------------------------------------------------------
(* select_representative_r3d (specification SpecSelect).                   *)

\* a < b for Python strings: by code point, a proper prefix first.
RECURSIVE StrLess(_, _)
StrLess(a, b) ==
    IF b = <<>> THEN FALSE
    ELSE IF a = <<>> THEN TRUE
    ELSE IF a[1] = b[1] THEN StrLess(Tail(a), Tail(b))
    ELSE ord(a[1]) < ord(b[1])

\* sorted(file_group, key=lambda x: os.path.basename(x[1])): a stable sort,
\* each element placed after the elements whose key is not greater.
RECURSIVE sorted(_)
sorted(file_group) ==
    IF file_group = <<>> THEN <<>>
    ELSE LET n == Len(file_group)
             rest == sorted(SubSeq(file_group, 1, n - 1))
             x == file_group[n]
             p == Cardinality({j \in 1..Len(rest) :
                     ~StrLess(os_path_basename(x[2]), os_path_basename(rest[j][2]))})
         IN  SubSeq(rest, 1, p) \o <<x>> \o SubSeq(rest, p + 1, Len(rest))

\* re.match(r'^[A-Za-z]\d{3}_[A-Za-z]\d{3}.*\.[Rr]3[Dd]$', file_name)
IsMainFile(file_name) ==
    /\ ClipPrefix(file_name, RangeOf(UpperCase) \cup RangeOf(LowerCase))
    /\ R3DTail(file_name)

MainFiles(sorted_files) ==
    SelectSeq(sorted_files, LAMBDA t : IsMainFile(os_path_basename(t[2])))

\* Mutant: the middle of the whole sorted group, main files or not.
select_representative_r3d_Unfiltered(file_group) ==
    IF file_group = <<>> THEN None
    ELSE IF Len(file_group) = 1 THEN file_group[1]
    ELSE sorted(file_group)[(Len(file_group) \div 2) + 1]

\* select_representative_r3d(file_group); Python's index i is position i + 1.
select_representative_r3d(file_group) ==
    IF file_group = <<>> THEN None
    ELSE IF Len(file_group) = 1 THEN file_group[1]
    ELSE LET sorted_files == sorted(file_group)
             main_files == MainFiles(sorted_files)
             files_to_process == IF main_files # <<>> THEN main_files ELSE sorted_files
             middle_index == Len(files_to_process) \div 2
         IN  files_to_process[middle_index + 1]

\* The files of one RDC folder: chunks of a clip (one of them named in
\* lower case, one repeated in a subfolder), a sidecar and a proxy.
ChunkPaths ==
    <<MountDir \o <<"/", "A", "0", "0", "1", ".", "R", "D", "C", "/", "A", "0", "0", "1", "_", "C", "0", "0", "1", "_", "0", "0", "1", ".", "R", "3", "D">>,
      MountDir \o <<"/", "A", "0", "0", "1", ".", "R", "D", "C", "/", "A", "0", "0", "1", "_", "C", "0", "0", "1", "_", "0", "0", "2", ".", "R", "3", "D">>,
      MountDir \o <<"/", "A", "0", "0", "1", ".", "R", "D", "C", "/", "A", "0", "0", "1", "_", "C", "0", "0", "1", "_", "0", "0", "3", ".", "R", "3", "D">>,
      MountDir \o <<"/", "A", "0", "0", "1", ".", "R", "D", "C", "/", "a", "0", "0", "1", "_", "c", "0", "0", "1", "_", "0", "0", "4", ".", "r", "3", "d">>,
      MountDir \o <<"/", "A", "0", "0", "1", ".", "R", "D", "C", "/", "s", "u", "b", "/", "A", "0", "0", "1", "_", "C", "0", "0", "1", "_", "0", "0", "2", ".", "R", "3", "D">>,
      MountDir \o <<"/", "A", "0", "0", "1", ".", "R", "D", "C", "/", ".", "_", "A", "0", "0", "1", "_", "C", "0", "0", "1", "_", "0", "0", "1", ".", "R", "3", "D">>,
      MountDir \o <<"/", "A", "0", "0", "1", ".", "R", "D", "C", "/", "p", "r", "o", "x", "y", ".", "R", "3", "D">>>>

SelectRepresentative ==
    /\ th.pc = "group"
    /\ th' = [th EXCEPT !.pc = "selected",
                        !.representative = select_representative_r3d(th.file_group)]
    /\ UNCHANGED <<drives, files, uuid, ncmds, ret, runs>>

NextSelect == SelectRepresentative

\* A group: up to MaxChunks different files, in any order, with their ids.
InitSelect ==
    /\ drives = <<>>
    /\ files = <<>>
    /\ uuid = 0
    /\ ncmds = 0
    /\ ret = NoCommand
    /\ runs = IdleRuns
    /\ \E n \in 0..MaxChunks : \E pick \in [1..n -> 1..Len(ChunkPaths)] :
          /\ \A i, j \in 1..n : pick[i] = pick[j] => i = j
          /\ th = [pc |-> "group",
                   file_group |-> [i \in 1..n |-> <<pick[i] + 1, ChunkPaths[pick[i]]>>],
                   representative |-> None]

SpecSelect == InitSelect /\ [][NextSelect]_vars

\* The positions of file_group the middle is taken from: the main files
\* when there is one, all positions otherwise.
Eligible(file_group) ==
    LET main == {i \in 1..Len(file_group) : IsMainFile(os_path_basename(file_group[i][2]))}
    IN  IF main # {} THEN main ELSE 1..Len(file_group)

\* C18: for a group of two or more members, select_representative_r3d
\* returns the element at index floor(n/2) of the members sorted by
\* filename, the list being restricted to the members matching the
\* main-camera pattern when at least one matches and the whole sorted
\* group otherwise: the result is a member of that list, exactly
\* floor(n/2) members of the list come before it in the sorted order
\* (members of equal filename staying in their given order), and it is a
\* member of the group.
C18_MiddleOfSorted ==
    (th.pc = "selected" /\ Len(th.file_group) >= 2) =>
        LET g == th.file_group
            S == Eligible(g)
            name(i) == os_path_basename(g[i][2])
        IN  \E r \in S :
               /\ th.representative = g[r]
               /\ Cardinality({i \in S : \/ StrLess(name(i), name(r))
                                         \/ name(i) = name(r) /\ i < r})
                      = Cardinality(S) \div 2

\* Five matching chunks, given out of order: the sorted element at index 2.
C18_Witness ==
    /\ th.pc = "selected" /\ Len(th.file_group) = 5
    /\ \A i \in 1..5 : IsMainFile(os_path_basename(th.file_group[i][2]))
    /\ th.file_group[1] # sorted(th.file_group)[1]
    /\ th.representative = sorted(th.file_group)[3]
    /\ os_path_basename(th.representative[2]) = os_path_basename(ChunkPaths[2])

----------------------------------------------------------------------------
(* A transcription run and the cleanup command against the same store      *)
(* (specification SpecUnresolved): the run holds its snapshot of pending   *)
(* rows while clean_duplicate_drives deletes drive rows.                   *)

\* Two catalogue entries of one volume, as two catalog runs that chose
\* "add as new" leave them, the files spread over both.
InitUnresolved ==
    /\ drives = [d \in 1..2 |->
                    [id |-> d, volume_name |-> "FOOTAGE_01", label |-> "FOOTAGE_01",
                     mount_point |-> "/mnt/FOOTAGE_01"]]
    /\ \E st \in [1..NumFiles -> Statuses] :
          files = [f \in 3..(NumFiles + 2) |->
                      [drive_id |-> 1 + (f % 2), path |-> "clip" \o ToString(f) \o ".mov",
                       size_bytes |-> NumFiles + 3 - f, thumbnail_path |-> 0,
                       transcription_status |-> st[f - 2]]]
    /\ uuid = NumFiles + 2
    /\ ncmds = 0
    /\ ret = NoCommand
    /\ runs = IdleRuns
    /\ th = IdleThumbs

NextUnresolved ==
    \/ NextRun(1)
    \/ \E duplicates \in DuplicateOrders(drives) :
       \E answers \in CleanAnswers(duplicates) :
          CleanDuplicateDrives(duplicates, answers)

SpecUnresolved == InitUnresolved /\ [][NextUnresolved]_vars

\* A step in which process_file returns before its claim: the file leaves
\* the queue of run r and its result is there in the same step.
ReturnsUnresolved(r) ==
    /\ runs[r].queue # <<>>
    /\ Len(runs'[r].queue) = Len(runs[r].queue) - 1
    /\ Len(runs'[r].results) = Len(runs[r].results) + 1

\* C20: when process_file cannot resolve a pending file's source (the
\* owning drive row is missing, or the file does not exist under the
\* drive's mount point), the file's transcription_status is set to 'error'
\* without any transcription attempt, and the file is not tried again in
\* that run.
C20_UnresolvedSetsError ==
    [][\A r \in Runs : ReturnsUnresolved(r) =>
          LET id == Head(runs[r].queue).id
          IN  /\ id \in DOMAIN files' => files'[id].transcription_status = "error"
              /\ \A w \in 1..MaxWorkers : runs'[r].workers[w] = runs[r].workers[w]
              /\ \A i \in 1..Len(runs'[r].queue) : runs'[r].queue[i].id # id]_vars

----------------------------------------------------------------------------
(* Further claims about the transcription runs.                            *)

\* C22: within a process_transcriptions run, process_file commits the
\* 'processing' status of a file before transcribe_audio starts for that
\* file, so in every state in which a worker of the run is transcribing a
\* file the stored status of that file is 'processing'.
C22_TranscribingIsProcessing ==
    \A r \in Runs : \A f \in DOMAIN files :
        Transcribing(r, f) => files[f].transcription_status = "processing"

\* C25: at every moment of a process_transcriptions run, the number of
\* files being worked on by the run (claimed as 'processing' by it and not
\* yet set to 'completed' or 'error') is at most max_workers.
C25_AtMostMaxWorkers ==
    \A r \in Runs :
        runs[r].pc = "running" =>
            Cardinality({f \in DOMAIN files : Transcribing(r, f)}) <= runs[r].max_workers

\* A pool of one thread is transcribing a file while more files wait.
C25_Witness ==
    /\ runs[1].pc = "running" /\ runs[1].max_workers = 1
    /\ Len(runs[1].queue) >= 2
    /\ Cardinality({f \in DOMAIN files : Transcribing(1, f)}) = 1

----------------------------------------------------------------------------
(* Further claims about handle_duplicate_drive and clean_duplicate_drives. *)

----------------------------------------------------------------------------
(* init_db and the columns of the files table (specification SpecInitDb).  *)
(* th.columns are the optional columns the table has, th.column_names the  *)
(* answer of PRAGMA table_info that the running init_db holds.  Every      *)
(* ALTER TABLE is committed by itself (no transaction is open), so a       *)
(* process that is killed leaves the columns it has added.                 *)

\* The ALTER TABLE statements of lines 88-96, in their order.
AlterOrder == <<"thumbnail_path", "transcription", "transcription_status", "transcription_date">>

\* The test that guards the k-th statement (lines 88 and 92).
AlterGuard(k, column_names) ==
    IF k = 1 THEN "thumbnail_path" \notin column_names
    ELSE "transcription" \notin column_names

\* ALTER TABLE files ADD COLUMN c TEXT: every row gets NULL (0) in it.
AddColumn(tbl, c) == [f \in DOMAIN tbl |-> (c :> 0) @@ tbl[f]]

\* init_db up to PRAGMA table_info: CREATE TABLE IF NOT EXISTS and the
\* column list.
InitDbOpen ==
    /\ th.pc \in {"closed", "done", "failed"}
    /\ ncmds < MaxCommands
    /\ ncmds' = ncmds + 1
    /\ LET columns == IF th.exists THEN th.columns ELSE RangeOf(AlterOrder)
       IN  th' = [th EXCEPT !.pc = "alter", !.k = 1, !.exists = TRUE,
                            !.columns = columns, !.column_names = columns]
    /\ UNCHANGED <<drives, files, uuid, ret, runs>>

\* The k-th ALTER TABLE, if its test asks for it; adding a column the table
\* has already raises sqlite3.OperationalError out of init_db.  After the
\* last one the function commits and returns.
InitDbAlter ==
    /\ th.pc = "alter"
    /\ LET c == AlterOrder[th.k]
           run == AlterGuard(th.k, th.column_names)
           columns == IF run THEN th.columns \cup {c} ELSE th.columns
           done == th.k = Len(AlterOrder)
       IN  IF run /\ c \in th.columns
           THEN /\ th' = [th EXCEPT !.pc = "failed"]
                /\ files' = files
           ELSE /\ files' = IF run THEN AddColumn(files, c) ELSE files
                /\ th' = [th EXCEPT !.columns = columns,
                             !.pc = IF done THEN "done" ELSE "alter",
                             !.k = IF done THEN @ ELSE @ + 1,
                             !.first = IF done /\ th.first = None
                                       THEN [id |-> 1, columns |-> columns, files |-> files']
                                       ELSE @]
    /\ UNCHANGED <<drives, uuid, ncmds, ret, runs>>

\* The process is killed while init_db runs.
InitDbKilled ==
    /\ th.pc = "alter"
    /\ th' = [th EXCEPT !.pc = "closed"]
    /\ UNCHANGED <<drives, files, uuid, ncmds, ret, runs>>

NextInitDb == InitDbOpen \/ InitDbAlter \/ InitDbKilled

\* No store yet, or a store of one of the schemas the tool has created:
\* without the four columns (src/temp/asset-tracker.py), with
\* thumbnail_path only, with all four; with or without a file row.
InitInitDb ==
    /\ drives = <<>>
    /\ uuid = 1
    /\ ncmds = 0
    /\ ret = NoCommand
    /\ runs = IdleRuns
    /\ \E exists \in BOOLEAN :
       \E columns \in {{}, {"thumbnail_path"}, RangeOf(AlterOrder)} :
       \E n \in 0..1 :
          /\ ~exists => (columns = {} /\ n = 0)
          /\ files = [f \in 1..n |-> [c \in columns |-> "x"] @@ [path |-> "clip.mov"]]
          /\ th = [pc |-> "closed", k |-> 1, exists |-> exists, columns |-> columns,
                   column_names |-> {}, first |-> None, before |-> files]

SpecInitDb == InitInitDb /\ [][NextInitDb]_vars

\* C21: init_db is idempotent: run on a store that already has the full
\* schema, or on an older files table lacking any subset of the columns
\* thumbnail_path, transcription, transcription_status and
\* transcription_date, it succeeds, leaves all four columns present, and
\* does not change or delete any existing row; running it twice gives the
\* same store as running it once.
C21_InitDbIdempotent ==
    /\ th.pc # "failed"
    /\ th.pc = "done" =>
          /\ th.columns = RangeOf(AlterOrder)
          /\ DOMAIN files = DOMAIN th.before
          /\ \A f \in DOMAIN files :
                /\ DOMAIN files[f] = {"path"} \cup RangeOf(AlterOrder)
                /\ \A c \in DOMAIN th.before[f] : files[f][c] = th.before[f][c]
          /\ th.first.columns = th.columns /\ th.first.files = files

\* No two file rows of one drive have the same relative path.
PathsUnique(tbl) ==
    \A f, g \in DOMAIN tbl :
        (tbl[f].drive_id = tbl[g].drive_id /\ tbl[f].path = tbl[g].path) => f = g

\* C27: clean_duplicate_drives with the 'keep files but reassign' choice
\* keeps relative paths unique within the kept drive: after it, no two
\* file rows of the kept drive have the same path, also when the deleted
\* entries cataloged the same files as the kept one.  (Checked on the
\* cleanups that start from a store in which the paths are unique.)
C27_ReassignKeepsPathsUnique ==
    [][(/\ Len(drives') < Len(drives)
        /\ \E f \in DOMAIN files : f \in DOMAIN files' /\ files'[f].drive_id # files[f].drive_id
        /\ PathsUnique(files))
          => PathsUnique(files')]_vars

----------------------------------------------------------------------------
(* Database (core/database.py): drives and their shelf locations           *)
(* (specification SpecLocations).  th.drive and th.location are the rows   *)
(* of the two tables, th.checkout the location of the latest CHECKOUT      *)
(* movement of a drive (0: none), th.result the value the last call        *)
(* returned.  location_id 0 is None.                                       *)

LocationIds == 1..NumLocations

\* Mutant: a drive is checked in whatever the status of the location is.
CheckinAllowed_Always(status) == TRUE

\* checkin_drive: location.status in ["EMPTY", "RESERVED"]
CheckinAllowed(status) == status \in {"EMPTY", "RESERVED"}

\* The drives whose location_id is l (Location.drives).
DrivesAt(l) == {d \in 1..NumDrives : th.drive[d].exists /\ th.drive[d].location_id = l}

Returns(state, value) == [state EXCEPT !.result = value]

AssignDriveToLocation(d, l) ==
    /\ th' = IF ~th.drive[d].exists THEN Returns(th, FALSE)
             ELSE IF th.location[l] = "OCCUPIED"
                  THEN Returns(th, th.drive[d].location_id = l)
             ELSE Returns([th EXCEPT !.drive[d].location_id = l,
                                     !.drive[d].status = "AVAILABLE",
                                     !.location[l] = "OCCUPIED"], TRUE)
    /\ UNCHANGED <<drives, files, uuid, ncmds, ret, runs>>

CheckoutDrive(d) ==
    /\ th' = IF ~th.drive[d].exists \/ th.drive[d].location_id = 0
             THEN Returns(th, FALSE)
             ELSE Returns([th EXCEPT !.checkout[d] = th.drive[d].location_id,
                                     !.drive[d].location_id = 0,
                                     !.drive[d].status = "CHECKED_OUT",
                                     !.location[th.drive[d].location_id] = "RESERVED"],
                          TRUE)
    /\ UNCHANGED <<drives, files, uuid, ncmds, ret, runs>>

\* checkin_drive; location_id 0 is the call without a location.
CheckinDrive(d, location_id) ==
    /\ LET l == IF location_id = 0 THEN th.checkout[d] ELSE location_id
       IN  th' = IF ~th.drive[d].exists THEN Returns(th, FALSE)
                 ELSE IF l = 0 THEN Returns(th, FALSE)
                 ELSE IF ~CheckinAllowed(th.location[l]) THEN Returns(th, FALSE)
                 ELSE Returns([th EXCEPT !.drive[d].location_id = l,
                                         !.drive[d].status = "AVAILABLE",
                                         !.location[l] = "OCCUPIED"], TRUE)
    /\ UNCHANGED <<drives, files, uuid, ncmds, ret, runs>>

\* delete_drive; the movements of the drive go with it (cascade).
DeleteDrive(d) ==
    /\ th' = IF ~th.drive[d].exists THEN Returns(th, FALSE)
             ELSE Returns([th EXCEPT !.drive[d] = [exists |-> FALSE, location_id |-> 0,
                                                   status |-> "AVAILABLE"],
                                     !.checkout[d] = 0], TRUE)
    /\ UNCHANGED <<drives, files, uuid, ncmds, ret, runs>>

NextLocations ==
    \/ \E d \in 1..NumDrives, l \in LocationIds : AssignDriveToLocation(d, l)
    \/ \E d \in 1..NumDrives : CheckoutDrive(d)
    \/ \E d \in 1..NumDrives, l \in {0} \cup LocationIds : CheckinDrive(d, l)
    \/ \E d \in 1..NumDrives : DeleteDrive(d)

\* add_drive and add_location have run: drives without a location, empty
\* locations.
InitLocations ==
    /\ drives = <<>>
    /\ files = <<>>
    /\ uuid = 0
    /\ ncmds = 0
    /\ ret = NoCommand
    /\ runs = IdleRuns
    /\ th = [drive |-> [d \in 1..NumDrives |->
                           [exists |-> TRUE, location_id |-> 0, status |-> "AVAILABLE"]],
             location |-> [l \in LocationIds |-> "EMPTY"],
             checkout |-> [d \in 1..NumDrives |-> 0],
             result |-> TRUE]

SpecLocations == InitLocations /\ [][NextLocations]_vars

\* C28: after any sequence of assign_drive_to_location, checkout_drive and
\* checkin_drive calls (and delete_drive calls), at most one drive has its
\* location_id equal to any given location.
C28_OneDrivePerLocation ==
    \A l \in LocationIds : Cardinality(DrivesAt(l)) <= 1

\* A second drive was assigned to the location that a checked-out drive had
\* reserved, and the check-in of the first drive without a location was
\* refused.
C28_Witness ==
    /\ th.checkout[1] = 1 /\ th.drive[1].status = "CHECKED_OUT"
    /\ DrivesAt(1) = {2} /\ th.location[1] = "OCCUPIED"
    /\ ~th.result

\* C29: after any sequence of assign_drive_to_location, checkout_drive,
\* checkin_drive and delete_drive calls, a location has status OCCUPIED if
\* and only if exactly one drive has it as location_id.
C29_OccupiedIffOneDrive ==
    \A l \in LocationIds :
        th.location[l] = "OCCUPIED" <=> Cardinality(DrivesAt(l)) = 1

----------------------------------------------------------------------------
(* generate_r3d_thumbnail (specification SpecR3DThumbnail).  th.size,      *)
(* th.makedirs, th.first and th.second are what the file system and the    *)
(* two ffmpeg runs will do; th.attempts the runs made so far; th.result    *)
(* the returned path, 0 for None.                                          *)

\* What a subprocess.run of ffmpeg with check=True and timeout=60 does:
\* a non-empty output file, exit status 0 with no or an empty file, a
\* non-zero exit status (CalledProcessError), TimeoutExpired, any other
\* exception (ffmpeg is not installed).
RunOutcomes == {"frame", "empty", "failed", "timeout", "error"}

\* Mutant: the second attempt is made after a successful first one too.
AttemptSucceeded_Never(outcome) == FALSE

\* The attempt returns thumbnail_path (lines 588-590 and 612-614).
AttemptSucceeded(outcome) == outcome = "frame"

\* Lines 540-563: the size test and the output directory.
StartThumbnail ==
    /\ th.pc = "start"
    /\ th' = IF th.size = "large" \/ ~th.makedirs
             THEN [th EXCEPT !.pc = "returned", !.result = 0]
             ELSE [th EXCEPT !.pc = "first"]
    /\ UNCHANGED <<drives, files, uuid, ncmds, ret, runs>>

\* Lines 567-594: the run with -vsync, -probesize, -analyzeduration, scale.
FirstAttempt ==
    /\ th.pc = "first"
    /\ th' = IF AttemptSucceeded(th.first)
             THEN [th EXCEPT !.pc = "returned", !.result = 1,
                             !.attempts = Append(@, "extended")]
             ELSE [th EXCEPT !.pc = "second", !.attempts = Append(@, "extended")]
    /\ UNCHANGED <<drives, files, uuid, ncmds, ret, runs>>

\* Lines 596-622: the run with -i and -vframes only, and return None.
SecondAttempt ==
    /\ th.pc = "second"
    /\ th' = [th EXCEPT !.pc = "returned", !.attempts = Append(@, "minimal"),
                        !.result = IF AttemptSucceeded(th.second) THEN 1 ELSE 0]
    /\ UNCHANGED <<drives, files, uuid, ncmds, ret, runs>>

NextR3DThumbnail == StartThumbnail \/ FirstAttempt \/ SecondAttempt

InitR3DThumbnail ==
    /\ drives = <<>>
    /\ files = <<>>
    /\ uuid = 0
    /\ ncmds = 0
    /\ ret = NoCommand
    /\ runs = IdleRuns
    /\ \E size \in {"small", "large", "unknown"}, makedirs \in BOOLEAN,
          first \in RunOutcomes, second \in RunOutcomes :
          th = [pc |-> "start", size |-> size, makedirs |-> makedirs, first |-> first,
                second |-> second, attempts |-> <<>>, result |-> 0]

SpecR3DThumbnail == InitR3DThumbnail /\ [][NextR3DThumbnail]_vars

\* C23: generate_r3d_thumbnail runs the extended-parameter extraction
\* first and runs the minimal-argument extraction only if the first
\* attempt failed, timed out or left no non-empty output file; it makes at
\* most two attempts, and when both fail it returns None without raising
\* (every behaviour ends in a return).
C23_FallbackChain ==
    /\ th.attempts \in {<<>>, <<"extended">>, <<"extended", "minimal">>}
    /\ Len(th.attempts) = 2 => th.first \in {"failed", "error", "timeout", "empty"}
    /\ (th.pc = "returned" /\ th.first = "frame") =>
          (th.attempts \in {<<>>, <<"extended">>} /\ (th.attempts # <<>> => th.result = 1))
    /\ (th.pc = "returned" /\ Len(th.attempts) = 2 /\ th.second # "frame") => th.result = 0
    /\ (th.pc = "returned" /\ th.result = 0 /\ th.size # "large" /\ th.makedirs) =>
          Len(th.attempts) = 2
    /\ th.pc \in {"start", "first", "second", "returned"}
    /\ th.pc # "returned" => ENABLED NextR3DThumbnail

\* The first run timed out, the second exited with an error: None.
C23_Witness ==
    /\ th.pc = "returned" /\ th.first = "timeout" /\ th.second = "failed"
    /\ th.attempts = <<"extended", "minimal">> /\ th.result = 0

----------------------------------------------------------------------------
(* transcribe_audio (specification SpecTranscribeAudio).  th.kind is the   *)
(* kind of file_path, th.wav whether the sibling .wav of an .r3d exists;   *)
(* th.load, th.extract, th.first and th.retry are what whisper.load_model, *)
(* the ffmpeg extraction and the two model.transcribe calls will do;       *)
(* th.temp whether the scratch file exists, th.ran the files the model was *)
(* run on, th.result "data", "None" or "" while the call is running.       *)

\* Lines 640-648: whisper.load_model and the mime type.
LoadModel ==
    /\ th.pc = "load"
    /\ th' = IF th.load = "raise" THEN [th EXCEPT !.pc = "returned", !.result = "None"]
             ELSE IF th.kind \in {"video", "r3d"} THEN [th EXCEPT !.pc = "extract"]
             ELSE [th EXCEPT !.pc = "wav", !.transcription_file = "source"]
    /\ UNCHANGED <<drives, files, uuid, ncmds, ret, runs>>

\* Lines 648-677: the scratch file and the ffmpeg extraction.
ExtractAudio ==
    /\ th.pc = "extract"
    /\ th' = IF th.extract = "ok"
             THEN [th EXCEPT !.pc = "wav", !.created = TRUE, !.temp = TRUE,
                             !.transcription_file = "temp"]
             ELSE [th EXCEPT !.pc = "returned", !.created = TRUE, !.temp = FALSE,
                             !.result = "None"]
    /\ UNCHANGED <<drives, files, uuid, ncmds, ret, runs>>

\* Lines 679-687: the sibling .wav of an .r3d file.
PreferWav ==
    /\ th.pc = "wav"
    /\ th' = IF th.kind = "r3d" /\ th.wav
             THEN [th EXCEPT !.pc = "transcribe", !.transcription_file = "wav",
                             !.temp = FALSE]
             ELSE [th EXCEPT !.pc = "transcribe"]
    /\ UNCHANGED <<drives, files, uuid, ncmds, ret, runs>>

\* Lines 689-723: model.transcribe, the CPU retry after a CUDA error, the
\* clean-up at 703-705 and the handlers at 718-723, which return None.
Transcribe ==
    /\ th.pc = "transcribe"
    /\ LET file == th.transcription_file
           retried == th.first = "cuda"
           ran == IF retried THEN <<file, file>> ELSE <<file>>
           ok == th.first = "ok" \/ (retried /\ th.retry = "ok")
       IN  th' = [th EXCEPT !.pc = "returned", !.ran = ran,
                            !.temp = IF ok THEN FALSE ELSE @,
                            !.result = IF ok THEN "data" ELSE "None"]
    /\ UNCHANGED <<drives, files, uuid, ncmds, ret, runs>>

NextTranscribeAudio == LoadModel \/ ExtractAudio \/ PreferWav \/ Transcribe

InitTranscribeAudio ==
    /\ drives = <<>>
    /\ files = <<>>
    /\ uuid = 0
    /\ ncmds = 0
    /\ ret = NoCommand
    /\ runs = IdleRuns
    /\ \E kind \in {"audio", "video", "r3d"}, wav \in BOOLEAN,
          load \in {"ok", "raise"}, extract \in {"ok", "failed"},
          first \in {"ok", "cuda", "runtime", "error"}, retry \in {"ok", "raise"} :
          th = [pc |-> "load", kind |-> kind, wav |-> wav, load |-> load,
                extract |-> extract, first |-> first, retry |-> retry,
                created |-> FALSE, temp |-> FALSE, transcription_file |-> "",
                ran |-> <<>>, result |-> ""]

SpecTranscribeAudio == InitTranscribeAudio /\ [][NextTranscribeAudio]_vars

\* C24: for an .r3d source with a sibling .wav file, transcribe_audio
\* always runs the speech model on the sibling file instead of the
\* extracted track, whether or not the audio extraction from the .r3d
\* succeeded, and the extracted scratch file is deleted.  (Stated for the
\* calls in which the speech model could be loaded.)
C24_SiblingWavPreferred ==
    (th.pc = "returned" /\ th.kind = "r3d" /\ th.wav /\ th.load = "ok") =>
        /\ th.ran # <<>>
        /\ \A i \in 1..Len(th.ran) : th.ran[i] = "wav"
        /\ ~th.temp

\* C30: every scratch audio file that transcribe_audio creates is deleted
\* before transcribe_audio returns, on success and on every failure path
\* (audio extraction error, speech-model error, failed CPU retry after a
\* CUDA error).
C30_ScratchDeleted ==
    (th.pc = "returned" /\ th.created) => ~th.temp

====
